---- MODULE Spec2Model ----
(***************************************************************************)
(* Model of the LoL eSports data pipeline of src/manusia: the DataLoader   *)
(* (data_loader.py) and the record endpoint built on it (records.py).      *)
(*                                                                         *)
(* A DataFrame is a record [isNone, dtype, rows]: dtype maps each column   *)
(* name to its pandas dtype and rows is the sequence of records in index   *)
(* order, each a function from column name to a cell.  The position of a   *)
(* row in rows is its index label.                                         *)
(***************************************************************************)
EXTENDS Integers, Sequences, FiniteSets, TLC

(***************************************************************************)
(* Bounds of the model.                                                    *)
(***************************************************************************)
\* Largest number of records of a generated source file.
MaxRows == 2
\* Largest kills/deaths/assists/teamkills count of a generated record.
MaxVal == 2

(***************************************************************************)
(* Cells.  k is the kind of the scalar, n/d its numeric value as a reduced *)
(* fraction, s its text.                                                   *)
(*   nan      float NaN (a missing entry)                                  *)
(*   nat      pandas NaT                                                   *)
(*   str      Python str                                                   *)
(*   npint    numpy.int64      npfloat  numpy.float64    npbool numpy.bool_*)
(*   ts       pandas Timestamp (s is its canonical string form)            *)
(*   pyint / pyfloat / pybool   plain Python numbers                       *)
(*   none     Python None (JSON null)                                      *)
(***************************************************************************)
Cell(kind, num, den, text) == [k |-> kind, n |-> num, d |-> den, s |-> text]
NaN == Cell("nan", 0, 1, "")
NaT == Cell("nat", 0, 1, "")
None == Cell("none", 0, 1, "")
Str(x) == Cell("str", 0, 1, x)
NpInt(i) == Cell("npint", i, 1, "")
NpBool(b) == Cell("npbool", IF b THEN 1 ELSE 0, 1, "")
Ts(x) == Cell("ts", 0, 1, x)

Abs(i) == IF i < 0 THEN -i ELSE i

RECURSIVE Gcd(_, _)
Gcd(a, b) == IF b = 0 THEN a ELSE Gcd(b, a % b)

\* The float a/b (b > 0), kept as a reduced fraction.
NpFloat(a, b) ==
    LET g == Gcd(Abs(a), b)
    IN  Cell("npfloat", a \div g, b \div g, "")

NumericKinds == {"npint", "npfloat", "npbool", "pyint", "pyfloat", "pybool"}
IsNumber(c) == c.k \in NumericKinds
\* pd.isna of a scalar
IsNa(c) == c.k \in {"nan", "nat", "none"}

(***************************************************************************)
(* The source file read by pd.read_csv: whether it exists, its header and  *)
(* its records.  A cell of the file is NaN (an empty field), NpInt (an     *)
(* integer token) or Str (any other token).                                *)
(***************************************************************************)
AllCols == {"gameid", "date", "playoffs", "kills", "deaths", "assists",
            "teamkills", "playername", "teamname"}

ValidDate == "2022-01-10"
ValidDateCanonical == "2022-01-10 00:00:00"
EpochCanonical == "1970-01-01 00:00:00"

BaseRow == [gameid |-> Str("g1"), date |-> Str(ValidDate), playoffs |-> NpInt(0),
            kills |-> NpInt(1), deaths |-> NpInt(1), assists |-> NpInt(1),
            teamkills |-> NpInt(2), playername |-> Str("p1"),
            teamname |-> Str("t1")]

\* A team row of the source: no player name, some statistics not filled in.
TeamRow == [gameid |-> Str("g2"), date |-> Str(ValidDate), playoffs |-> NaN,
            kills |-> NpInt(2), deaths |-> NaN, assists |-> NpInt(0),
            teamkills |-> NaN, playername |-> NaN, teamname |-> NaN]

Restrict(row, cols) == [c \in cols |-> row[c]]

\* F(value), with value computed once (a local variable holding an object).
Bind(value, F(_)) == CHOOSE r \in {F(v) : v \in {value}} : TRUE

SeqsUpTo(S, n) == UNION {[1..m -> S] : m \in 1..n}

File(cols, rows) ==
    [exists |-> TRUE, cols |-> cols,
     rows |-> [i \in 1..Len(rows) |-> Restrict(rows[i], cols)]]

MissingFile == [exists |-> FALSE, cols |-> {}, rows |-> <<>>]

\* Records that differ in key, player identity and team identity.
IdentityRows ==
    {[BaseRow EXCEPT !.gameid = g, !.playername = p, !.teamname = t] :
        g \in {Str("g1"), Str("g2")}, p \in {NaN, Str("p1")},
        t \in {NaN, Str("t1")}}

\* Records that differ in the date field and the playoffs flag.
DateRows ==
    {[BaseRow EXCEPT !.date = dt, !.playoffs = f] :
        dt \in {Str(ValidDate), NaN, Str("not a date"), Str("NaT")},
        f \in {NaN, NpInt(0), NpInt(1)}}

\* Records that differ in the combat statistics.
Counts == {NaN} \cup {NpInt(i) : i \in 0..MaxVal}
CombatRows ==
    {[BaseRow EXCEPT !.kills = ki, !.deaths = de, !.assists = as, !.teamkills = tk] :
        ki \in Counts, de \in Counts, as \in Counts, tk \in Counts}

\* The three records A, B, C of the KDA scenario.
ScenarioRows ==
    << [BaseRow EXCEPT !.gameid = Str("A"), !.kills = NpInt(5), !.deaths = NpInt(1),
                       !.assists = NpInt(3), !.teamkills = NpInt(10)],
       [BaseRow EXCEPT !.gameid = Str("B"), !.kills = NpInt(2), !.deaths = NpInt(2),
                       !.assists = NpInt(0), !.teamkills = NpInt(0)],
       [BaseRow EXCEPT !.gameid = Str("C"), !.kills = NpInt(10), !.deaths = NpInt(0),
                       !.assists = NpInt(5), !.teamkills = NaN] >>

IdentityFiles == {File(AllCols, rows) : rows \in SeqsUpTo(IdentityRows, MaxRows)}
DateFiles == {File(AllCols, rows) : rows \in SeqsUpTo(DateRows, MaxRows)}
CombatFiles == {File(AllCols, <<r>>) : r \in CombatRows}
ScenarioFile == File(AllCols, ScenarioRows)
\* Two records under every header that lacks some of the expected columns.
SchemaFiles == {File(cols, <<BaseRow, TeamRow>>) : cols \in SUBSET AllCols}

IsRawFile(file) ==
    \/ file \in IdentityFiles
    \/ file \in DateFiles
    \/ file \in CombatFiles
    \/ file = ScenarioFile
    \/ file \in SchemaFiles
    \/ file = MissingFile

(***************************************************************************)
(* pd.read_csv(file_path, low_memory=False): the dtype of a column is      *)
(* inferred from all of its fields.                                        *)
(***************************************************************************)
ColCells(rows, c) == {rows[i][c] : i \in DOMAIN rows}

InferDtype(cells) ==
    IF \A x \in cells : x.k \in {"nan", "npint"}
    THEN IF \E x \in cells : x.k = "nan" THEN "float64" ELSE "int64"
    ELSE "object"

\* The stored form of a field in a column of the given dtype.
ParseField(x, dtype) ==
    CASE dtype = "float64" /\ x.k = "npint" -> NpFloat(x.n, 1)
      [] dtype = "object" /\ x.k = "npint" -> Str(ToString(x.n))
      [] OTHER -> x

NoData == [isNone |-> TRUE, dtype |-> [c \in {} |-> ""], rows |-> <<>>]

DataFrame(dtype, rows) == [isNone |-> FALSE, dtype |-> dtype, rows |-> rows]

Columns(df) == DOMAIN df.dtype

read_csv(file) ==
    LET Parsed(dtype) ==
            DataFrame(dtype,
                      [i \in DOMAIN file.rows |->
                          [c \in file.cols |-> ParseField(file.rows[i][c], dtype[c])]])
    IN  Bind([c \in file.cols |-> InferDtype(ColCells(file.rows, c))], Parsed)

(***************************************************************************)
(* Arithmetic of the derived features, on cells.  NaN propagates as in     *)
(* IEEE arithmetic; an operand that is no number makes Python raise.       *)
(***************************************************************************)
IsNumeric(c) == IsNumber(c) \/ c.k = "nan"

\* x + y
Add(x, y) ==
    IF x.k = "nan" \/ y.k = "nan" THEN NaN
    ELSE NpFloat(x.n * y.d + y.n * x.d, x.d * y.d)

\* x > i, for an integer i (False for NaN)
Gt(x, i) == x.k # "nan" /\ x.n > i * x.d

\* max(1, x): the first argument unless x compares greater
Max1(x) == IF Gt(x, 1) THEN x ELSE NpInt(1)

\* x / y, for y > 0
Div(x, y) ==
    IF x.k = "nan" \/ y.k = "nan" THEN NaN
    ELSE NpFloat(x.n * y.d, x.d * y.n)

(***************************************************************************)
(* DataLoader._handle_missing_values                                       *)
(***************************************************************************)
NumericDtypes == {"float64", "int64"}

\* cols = df.select_dtypes(include=dtypes).columns
\* df[cols] = df[cols].fillna(value)
FillNa(df, dtypes, value) ==
    [df EXCEPT !.rows =
        [i \in DOMAIN df.rows |->
            [c \in Columns(df) |->
                IF df.dtype[c] \in dtypes /\ df.rows[i][c].k = "nan"
                THEN value ELSE df.rows[i][c]]]]

\* A variant that fills the numeric columns only.
handle_missing_values_numeric_only(df) == FillNa(df, NumericDtypes, NpFloat(0, 1))

handle_missing_values(df) ==
    LET FillCategorical(filled) == FillNa(filled, {"object"}, Str("unknown"))
    IN  Bind(FillNa(df, NumericDtypes, NpFloat(0, 1)), FillCategorical)

(***************************************************************************)
(* DataLoader._convert_data_types.  A stage returns [ok, err, df]: df is   *)
(* the frame as the stage left it, which on a raise is the frame as        *)
(* modified up to the raising statement, since every stage assigns into    *)
(* the frame it is given.                                                  *)
(***************************************************************************)
bool_cols == {"playoffs", "firstblood", "firstbloodkill", "firstbloodassist",
              "firstbloodvictim"}

Ok(df) == [ok |-> TRUE, err |-> "", df |-> df]
Raise(e, df) == [ok |-> FALSE, err |-> e, df |-> df]

\* Whether pd.to_datetime accepts the entry of a column of the given dtype.
DateParses(x, dtype) ==
    CASE dtype = "object" -> x.k = "nan" \/ x.s \in {ValidDate, "NaT"}
      [] dtype \in NumericDtypes -> TRUE
      [] dtype = "datetime64" -> TRUE
      [] OTHER -> FALSE

\* Nanoseconds after the epoch, in the canonical form of a Timestamp.
EpochPlus(ns) ==
    IF ns = 0 THEN EpochCanonical
    ELSE EpochCanonical \o ".00000000" \o ToString(ns)

to_datetime(x, dtype) ==
    CASE x.k \in {"nan", "nat"} -> NaT
      [] x.k = "ts" -> x
      [] x.k = "str" /\ x.s = "NaT" -> NaT
      [] x.k = "str" /\ x.s = ValidDate -> Ts(ValidDateCanonical)
      [] x.k \in {"npint", "npfloat"} -> Ts(EpochPlus(x.n))

\* astype(bool) of one entry
AsBool(x) ==
    CASE x.k = "nan" -> NpBool(TRUE)
      [] x.k = "str" -> NpBool(x.s # "")
      [] x.k \in {"npint", "npfloat", "npbool"} -> NpBool(x.n # 0)

\* df[c] = vals, a column of dtype newtype (a new column when c is not one yet)
SetColumn(df, c, newtype, vals) ==
    [df EXCEPT !.dtype = [k \in Columns(df) \cup {c} |->
                             IF k = c THEN newtype ELSE df.dtype[k]],
               !.rows = [i \in DOMAIN df.rows |->
                            [k \in Columns(df) \cup {c} |->
                                IF k = c THEN vals[i] ELSE df.rows[i][k]]]]

RECURSIVE ConvertFlags(_, _)
ConvertFlags(df, cols) ==
    IF cols = {} THEN df
    ELSE LET c == CHOOSE x \in cols : TRUE
             Rest(converted) == ConvertFlags(converted, cols \ {c})
         IN  Bind(SetColumn(df, c, "bool",
                            [i \in DOMAIN df.rows |-> AsBool(df.rows[i][c])]), Rest)

convert_data_types(df) ==
    IF "date" \in Columns(df)
       /\ \E i \in DOMAIN df.rows : ~DateParses(df.rows[i]["date"], df.dtype["date"])
    THEN Raise("Unknown datetime string format", df)
    ELSE LET Flags(dated) == Ok(ConvertFlags(dated, bool_cols \cap Columns(dated)))
         IN  Bind(IF "date" \in Columns(df)
                  THEN SetColumn(df, "date", "datetime64",
                                 [i \in DOMAIN df.rows |->
                                     to_datetime(df.rows[i]["date"], df.dtype["date"])])
                  ELSE df, Flags)

(***************************************************************************)
(* DataLoader._add_derived_features                                        *)
(***************************************************************************)
\* A row lambda that leaves the assists out (kills per death).
kda_without_assists(row) == Div(row["kills"], Max1(row["deaths"]))

\* lambda row: (row['kills'] + row['assists']) / max(1, row['deaths'])
kda_of(row) == Div(Add(row["kills"], row["assists"]), Max1(row["deaths"]))

kda_raises(row) == \E c \in {"kills", "deaths", "assists"} : ~IsNumeric(row[c])

\* A row lambda that tests teamkills >= 0 instead of > 0.
kill_participation_nonneg(row) ==
    IF Gt(row["teamkills"], -1)
    THEN Div(Add(row["kills"], row["assists"]), Max1(row["teamkills"]))
    ELSE Cell("pyint", 0, 1, "")

\* lambda row: (row['kills'] + row['assists']) / max(1, row['teamkills'])
\*             if row['teamkills'] > 0 else 0
kill_participation_of(row) ==
    IF Gt(row["teamkills"], 0)
    THEN Div(Add(row["kills"], row["assists"]), Max1(row["teamkills"]))
    ELSE Cell("pyint", 0, 1, "")

kill_participation_raises(row) ==
    \/ ~IsNumeric(row["teamkills"])
    \/ /\ Gt(row["teamkills"], 0)
       /\ \E c \in {"kills", "assists"} : ~IsNumeric(row[c])

\* The Series df.apply(f, axis=1) builds from the values a row lambda returned:
\* int64 when every value is a Python int, float64 otherwise.
AppliedDtype(vals) ==
    IF \A i \in DOMAIN vals : vals[i].k = "pyint" THEN "int64" ELSE "float64"

AppliedCell(x, dtype) ==
    CASE x.k = "nan" -> NaN
      [] dtype = "int64" -> NpInt(x.n)
      [] OTHER -> NpFloat(x.n, x.d)

\* df[c] = df.apply(f, axis=1), vals being the values f returned for the rows
ApplyRows(df, c, vals) ==
    LET Assign(v) ==
            SetColumn(df, c, AppliedDtype(v),
                      [i \in DOMAIN v |-> AppliedCell(v[i], AppliedDtype(v))])
    IN  Bind(vals, Assign)

has_kda_sources(df) == {"kills", "deaths", "assists"} \subseteq Columns(df)

has_kp_sources(df) == {"kills", "assists", "teamkills"} \subseteq Columns(df)

add_kill_participation(df) ==
    IF ~has_kp_sources(df) THEN Ok(df)
    ELSE IF \E i \in DOMAIN df.rows : kill_participation_raises(df.rows[i])
    THEN Raise("unsupported operand type(s)", df)
    ELSE Ok(ApplyRows(df, "kill_participation",
                      [i \in DOMAIN df.rows |-> kill_participation_of(df.rows[i])]))

\* A variant that null-fills the kda column when one of its sources is absent.
add_derived_features_null_filled(df) ==
    IF ~has_kda_sources(df)
    THEN Bind(ApplyRows(df, "kda", [i \in DOMAIN df.rows |-> NaN]),
              add_kill_participation)
    ELSE IF \E i \in DOMAIN df.rows : kda_raises(df.rows[i])
    THEN Raise("unsupported operand type(s)", df)
    ELSE Bind(ApplyRows(df, "kda", [i \in DOMAIN df.rows |-> kda_of(df.rows[i])]),
              add_kill_participation)

\* A variant that keeps kills + assists in the kills column.
add_derived_features_in_kills(df) ==
    IF ~has_kda_sources(df) THEN add_kill_participation(df)
    ELSE IF \E i \in DOMAIN df.rows : kda_raises(df.rows[i])
    THEN Raise("unsupported operand type(s)", df)
    ELSE LET Derive(summed) ==
                 Bind(ApplyRows(summed, "kda",
                                [i \in DOMAIN summed.rows |->
                                    Div(summed.rows[i]["kills"],
                                        Max1(summed.rows[i]["deaths"]))]),
                      add_kill_participation)
         IN  Bind(SetColumn(df, "kills", df.dtype["kills"],
                            [i \in DOMAIN df.rows |->
                                Add(df.rows[i]["kills"], df.rows[i]["assists"])]),
                  Derive)

add_derived_features(df) ==
    IF ~has_kda_sources(df) THEN add_kill_participation(df)
    ELSE IF \E i \in DOMAIN df.rows : kda_raises(df.rows[i])
    THEN Raise("unsupported operand type(s)", df)
    ELSE Bind(ApplyRows(df, "kda", [i \in DOMAIN df.rows |-> kda_of(df.rows[i])]),
              add_kill_participation)

(***************************************************************************)
(* The DataLoader object: self.data, self.player_data, self.team_data.     *)
(* A subset is the index labels of its rows, in order.  stage records how  *)
(* far the cleaning pipeline got on the frame self.data refers to.         *)
(***************************************************************************)
\* threads is the state of the request threads of the server: where each is in
\* the handler, the frame object each one read, and which object self.data
\* refers to.  The other variables are the module-level data_loader.
\* items is the module-level list of the item service (heritage/exemplo-crud.py).
VARIABLES source, data, player_data, team_data, stage, last, threads, items

vars == <<source, data, player_data, team_data, stage, last, threads, items>>

\* The list the item service starts with (exemplo-crud.py, lines 5-8).
Item(id, nome, preco) == [id |-> id, nome |-> nome, preco |-> preco]
InitialItems == <<Item(1, "item 1", 10), Item(2, "item 2", 20)>>

\* The request threads of a threaded server.
Threads == {1, 2}

NoSubset == [isNone |-> TRUE, index |-> <<>>]
Subset(index) == [isNone |-> FALSE, index |-> index]

Loader(d, p, t, st) == [data |-> d, player_data |-> p, team_data |-> t, stage |-> st]

Self == Loader(data, player_data, team_data, stage)

\* No request is in flight.  pc is the statement a thread is at, id the key
\* it was asked for, df the frame object its reduce call was given, heap the
\* frame object each thread's read_csv created, ref the object self.data
\* refers to (0: None), and saw what the frame was when the thread's lookup
\* read it ("preprocessed" or "partial").
NoThreads ==
    [pc |-> [t \in Threads |-> "idle"],
     id |-> [t \in Threads |-> ""],
     df |-> [t \in Threads |-> 0],
     heap |-> [t \in Threads |-> NoData],
     ref |-> 0,
     saw |-> [t \in Threads |-> "none"]]

\* The outcome of a method: whether it raised, str(e), the object afterwards.
Returned(self) == [raised |-> FALSE, err |-> "", self |-> self]
Raised(e, self) == [raised |-> TRUE, err |-> e, self |-> self]

(***************************************************************************)
(* DataLoader.load_data                                                    *)
(***************************************************************************)
\* A variant that reads the file without keeping the frame in self.data.
load_data_not_kept(self, file) ==
    IF ~file.exists
    THEN Raised("[Errno 2] No such file or directory", self)
    ELSE IF file.cols = {}
    THEN Raised("No columns to parse from file", self)
    ELSE Returned(self)

load_data(self, file) ==
    IF ~file.exists
    THEN Raised("[Errno 2] No such file or directory", self)
    ELSE IF file.cols = {}
    THEN Raised("No columns to parse from file", self)
    ELSE Returned([self EXCEPT !.data = read_csv(file), !.stage = "raw"])

(***************************************************************************)
(* DataLoader._split_data                                                  *)
(***************************************************************************)
notna(x) == ~IsNa(x)

Indices(df) == [i \in 1..Len(df.rows) |-> i]

player_rows(df) ==
    LET IsPlayer(i) == notna(df.rows[i]["playername"])
    IN  SelectSeq(Indices(df), IsPlayer)

team_rows(df) ==
    LET IsTeam(i) == IsNa(df.rows[i]["playername"]) /\ notna(df.rows[i]["teamname"])
    IN  SelectSeq(Indices(df), IsTeam)

split_data(self) ==
    IF self.data.isNone THEN Returned(self)
    ELSE IF "playername" \notin Columns(self.data)
    THEN Raised("'playername'", self)
    ELSE IF "teamname" \notin Columns(self.data)
    THEN Raised("'teamname'",
                [self EXCEPT !.player_data = Subset(player_rows(self.data))])
    ELSE Returned([self EXCEPT !.player_data = Subset(player_rows(self.data)),
                               !.team_data = Subset(team_rows(self.data))])

(***************************************************************************)
(* DataLoader.preprocess_data                                              *)
(***************************************************************************)
\* reduce(lambda df, func: func(df), cleaning_pipeline, self.data)
cleaning_pipeline(df) ==
    LET Derive(converted) ==
            IF ~converted.ok
            THEN [ok |-> FALSE, err |-> converted.err, df |-> converted.df,
                  stage |-> "convert_failed"]
            ELSE LET Done(derived) ==
                         IF ~derived.ok
                         THEN [ok |-> FALSE, err |-> derived.err, df |-> derived.df,
                               stage |-> "derive_failed"]
                         ELSE [ok |-> TRUE, err |-> "", df |-> derived.df,
                               stage |-> "cleaned"]
                 IN  Bind(add_derived_features(converted.df), Done)
        Convert(filled) == Bind(convert_data_types(filled), Derive)
    IN  Bind(handle_missing_values(df), Convert)

preprocess_data(self, file) ==
    LET Split(cleaned, loaded) ==
            LET Finish(split) ==
                    IF split.raised
                    THEN Raised(split.err, [split.self EXCEPT !.stage = "split_failed"])
                    ELSE Returned([split.self EXCEPT !.stage = "done"])
            IN  IF ~cleaned.ok
                THEN Raised(cleaned.err,
                            [loaded.self EXCEPT !.data = cleaned.df,
                                                !.stage = cleaned.stage])
                ELSE Bind(split_data([loaded.self EXCEPT !.data = cleaned.df]), Finish)
        Clean(loaded) ==
            LET SplitLoaded(cleaned) == Split(cleaned, loaded)
            IN  IF loaded.raised THEN loaded
                ELSE Bind(cleaning_pipeline(loaded.self.data), SplitLoaded)
    IN  Bind(IF self.data.isNone THEN load_data(self, file) ELSE Returned(self), Clean)

(***************************************************************************)
(* DataLoader.get_record_by_id                                             *)
(***************************************************************************)
NoRecord == [c \in {} |-> None]

\* Series.to_dict() of a row: with native the values are boxed to Python
\* scalars, as newer pandas versions do; without, they stay numpy scalars.
maybe_box_native(x) ==
    CASE x.k = "npint" -> Cell("pyint", x.n, x.d, "")
      [] x.k = "npfloat" -> Cell("pyfloat", x.n, x.d, "")
      [] x.k = "npbool" -> Cell("pybool", x.n, x.d, "")
      [] OTHER -> x

to_dict(row, native) ==
    [c \in DOMAIN row |-> IF native THEN maybe_box_native(row[c]) ELSE row[c]]

\* self.data['gameid'] == record_id, for one row
KeyEquals(row, record_id) == row["gameid"].k = "str" /\ row["gameid"].s = record_id

\* A variant that returns the last matching record.
first_match_is_last(df, record_id) ==
    LET Match(row) == KeyEquals(row, record_id)
        record == SelectSeq(df.rows, Match)
    IN  record[Len(record)]

\* record.iloc[0], for a non-empty selection
first_match(df, record_id) ==
    LET Match(row) == KeyEquals(row, record_id)
        record == SelectSeq(df.rows, Match)
    IN  record[1]

\* The outcome carries found (a dict, not None) and the dict rec.
get_record_by_id(self, file, record_id, native) ==
    LET Match(row) == KeyEquals(row, record_id)
        Lookup(pre) ==
            IF pre.raised
            THEN [raised |-> TRUE, err |-> pre.err, self |-> pre.self,
                  found |-> FALSE, rec |-> NoRecord]
            ELSE IF "gameid" \notin Columns(pre.self.data)
            THEN [raised |-> TRUE, err |-> "'gameid'", self |-> pre.self,
                  found |-> FALSE, rec |-> NoRecord]
            ELSE IF SelectSeq(pre.self.data.rows, Match) = <<>>
            THEN [raised |-> FALSE, err |-> "", self |-> pre.self,
                  found |-> FALSE, rec |-> NoRecord]
            ELSE [raised |-> FALSE, err |-> "", self |-> pre.self,
                  found |-> TRUE,
                  rec |-> to_dict(first_match(pre.self.data, record_id), native)]
    IN  Bind(IF self.data.isNone THEN preprocess_data(self, file) ELSE Returned(self),
             Lookup)

(***************************************************************************)
(* records.get_record: the /record/<id> endpoint over the module-level     *)
(* data_loader.  The outcome carries the HTTP code and the JSON body       *)
(* (status, message, data), and whether the try block raised.              *)
(***************************************************************************)
\* A variant of the conversion loop without the .item() branch.
json_value_no_item(value) ==
    IF IsNa(value) THEN None
    ELSE IF value.k = "ts" THEN Str(value.s)
    ELSE value

\* The conversion loop of the handler, for one value of the record.
json_value(value) ==
    IF IsNa(value) THEN None
    ELSE IF value.k = "ts" THEN Str(value.s)
    ELSE IF value.k \in {"npint", "npfloat", "npbool"}
    THEN Cell(CASE value.k = "npint" -> "pyint"
                [] value.k = "npfloat" -> "pyfloat"
                [] value.k = "npbool" -> "pybool", value.n, value.d, "")
    ELSE value

Response(code, status, message, body, raised, self) ==
    [code |-> code, status |-> status, message |-> message, data |-> body,
     raised |-> raised, self |-> self]

\* A variant whose except branch lets a KeyError through (code 0: no response).
server_error_unless_key_error(e, self) ==
    IF e = "'gameid'" THEN Response(0, "", e, NoRecord, TRUE, self)
    ELSE Response(500, "error", e, NoRecord, TRUE, self)

\* The except branch: jsonify({'status': 'error', 'message': str(e)}), 500
ServerError(e, self) == Response(500, "error", e, NoRecord, TRUE, self)

not_found_message(id) == "Registro com ID " \o id \o " nao encontrado"

get_record(self, file, id, native) ==
    LET Answer(got) ==
            IF got.raised THEN ServerError(got.err, got.self)
            ELSE IF ~got.found
            THEN Response(404, "error", not_found_message(id), NoRecord, FALSE, got.self)
            ELSE Response(200, "success", "",
                          [c \in DOMAIN got.rec |-> json_value(got.rec[c])],
                          FALSE, got.self)
        Request(pre) ==
            IF pre.raised THEN ServerError(pre.err, pre.self)
            ELSE Bind(get_record_by_id(pre.self, file, id, native), Answer)
    IN  Bind(IF self.data.isNone THEN preprocess_data(self, file) ELSE Returned(self),
             Request)

(***************************************************************************)
(* DataLoader.filter_data.  filters maps a column name to a constraint     *)
(* [list, values]: a list of accepted values (isinstance(value, list)) or, *)
(* with list FALSE, the single value values[1].                            *)
(***************************************************************************)
\* x == v, elementwise: numbers compare by value, strings by text, and a
\* missing entry equals nothing.
CellEq(x, v) ==
    \/ IsNumber(x) /\ IsNumber(v) /\ x.n * v.d = v.n * x.d
    \/ x.k = "str" /\ v.k = "str" /\ x.s = v.s

\* Series.isin(values), for one entry
IsIn(x, values) == \E j \in DOMAIN values : CellEq(x, values[j])

\* A variant of the mask that reads a list as its first value only.
mask_first_value(x, constraint) == CellEq(x, constraint.values[1])

\* The mask of one filter, for one entry of its column.
mask(x, constraint) ==
    IF constraint.list THEN IsIn(x, constraint.values)
    ELSE CellEq(x, constraint.values[1])

\* The loop over filters.items(): index is the index of filtered_data so far
\* and cols the columns of the mapping still to visit.
RECURSIVE apply_filters(_, _, _, _)
apply_filters(df, index, filters, cols) ==
    IF cols = {} THEN index
    ELSE LET column == CHOOSE c \in cols : TRUE
             Keep(i) == mask(df.rows[i][column], filters[column])
             Rest(filtered) == apply_filters(df, filtered, filters, cols \ {column})
         IN  Bind(IF column \in Columns(df) THEN SelectSeq(index, Keep) ELSE index,
                  Rest)

\* A variant that narrows self.data itself instead of a copy.
filter_data_in_place(self, file, filters) ==
    LET Filter(pre) ==
            IF pre.raised
            THEN [raised |-> TRUE, err |-> pre.err, self |-> pre.self, index |-> <<>>]
            ELSE LET Narrow(index) ==
                         [raised |-> FALSE, err |-> "",
                          self |-> [pre.self EXCEPT !.data.rows =
                                       [j \in DOMAIN index |-> pre.self.data.rows[index[j]]]],
                          index |-> index]
                 IN  Bind(apply_filters(pre.self.data, Indices(pre.self.data),
                                        filters, DOMAIN filters), Narrow)
    IN  Bind(IF self.data.isNone THEN preprocess_data(self, file) ELSE Returned(self),
             Filter)

\* The outcome carries the index labels of the returned copy.
filter_data(self, file, filters) ==
    LET Filter(pre) ==
            IF pre.raised
            THEN [raised |-> TRUE, err |-> pre.err, self |-> pre.self, index |-> <<>>]
            ELSE [raised |-> FALSE, err |-> "", self |-> pre.self,
                  index |-> apply_filters(pre.self.data, Indices(pre.self.data),
                                          filters, DOMAIN filters)]
    IN  Bind(IF self.data.isNone THEN preprocess_data(self, file) ELSE Returned(self),
             Filter)

(***************************************************************************)
(* DataLoader.get_unique_values and DataLoader.apply_function_to_column.   *)
(* The outcome carries the returned values, in order.                      *)
(***************************************************************************)
\* Series.unique(): the distinct entries in order of first appearance (all
\* missing entries count as one).
RECURSIVE unique(_)
unique(vals) ==
    IF vals = <<>> THEN <<>>
    ELSE LET x == vals[Len(vals)]
             Seen(before) ==
                 IF \E j \in DOMAIN before : before[j] = x THEN before
                 ELSE Append(before, x)
         IN  Bind(unique(SubSeq(vals, 1, Len(vals) - 1)), Seen)

Column(df, column) == [i \in DOMAIN df.rows |-> df.rows[i][column]]

\* ndarray.tolist() of the unique values: numpy scalars become Python ones.
tolist(vals) == [j \in DOMAIN vals |-> maybe_box_native(vals[j])]

get_unique_values(self, file, column) ==
    LET Unique(pre) ==
            IF pre.raised
            THEN [raised |-> TRUE, err |-> pre.err, self |-> pre.self, values |-> <<>>]
            ELSE [raised |-> FALSE, err |-> "", self |-> pre.self,
                  values |-> IF column \in Columns(pre.self.data)
                             THEN tolist(unique(Column(pre.self.data, column)))
                             ELSE <<>>]
    IN  Bind(IF self.data.isNone THEN preprocess_data(self, file) ELSE Returned(self),
             Unique)

\* The functions given to apply_function_to_column: pd.isna and lambda x: x.
Funcs == {"isna", "identity"}

Apply(func, x) == IF func = "isna" THEN Cell("pybool", IF IsNa(x) THEN 1 ELSE 0, 1, "")
                  ELSE x

apply_function_to_column(self, file, column, func) ==
    LET Applied(pre) ==
            IF pre.raised
            THEN [raised |-> TRUE, err |-> pre.err, self |-> pre.self, values |-> <<>>]
            ELSE [raised |-> FALSE, err |-> "", self |-> pre.self,
                  values |-> IF column \in Columns(pre.self.data)
                             THEN [i \in DOMAIN pre.self.data.rows |->
                                      Apply(func, pre.self.data.rows[i][column])]
                             ELSE <<>>]
    IN  Bind(IF self.data.isNone THEN preprocess_data(self, file) ELSE Returned(self),
             Applied)

(***************************************************************************)
(* The state machine.  last is the most recent call and what it gave back. *)
(***************************************************************************)
RecordIds == {"g1", "g2"}

NoFilters == [c \in {} |-> [list |-> FALSE, values |-> <<>>]]
NoStats == [k \in {} |-> NoRecord]

\* filters and index are the mapping given to filter_data and the index of
\* the frame it returned; values is the list or Series a column query
\* returned; args, empty and out are the arguments of an analyzer method,
\* whether what it returned is empty, and the dict or frame it returned; fig
\* is the figure a builder of the visualizer returned; given is the frame
\* object a pipeline stage or preprocess_data was handed, as it is after the
\* call.
Call(op, arg, raised, err, found, rec, code, status, message) ==
    [op |-> op, arg |-> arg, raised |-> raised, err |-> err, found |-> found,
     rec |-> rec, code |-> code, status |-> status, message |-> message,
     filters |-> NoFilters, index |-> <<>>, values |-> <<>>,
     args |-> <<>>, empty |-> FALSE, out |-> NoStats, fig |-> <<>>,
     given |-> NoData]

NoCall == Call("", "", FALSE, "", FALSE, NoRecord, 0, "", "")

Init ==
    /\ IsRawFile(source)
    /\ data = NoData
    /\ player_data = NoSubset
    /\ team_data = NoSubset
    /\ stage = "none"
    /\ last = NoCall
    /\ threads = NoThreads
    /\ items = InitialItems

Commit(self) ==
    /\ data' = self.data
    /\ player_data' = self.player_data
    /\ team_data' = self.team_data
    /\ stage' = self.stage
    /\ UNCHANGED <<items, source, threads>>

LoadData ==
    \E r \in {load_data(Self, source)} :
        /\ Commit(r.self)
        /\ last' = Call("load_data", "", r.raised, r.err, FALSE, NoRecord, 0, "", "")

PreprocessData ==
    \E r \in {preprocess_data(Self, source)} :
        /\ Commit(r.self)
        /\ last' = [Call("preprocess_data", "", r.raised, r.err, FALSE, NoRecord,
                         0, "", "")
                    EXCEPT !.given = IF data.isNone THEN NoData ELSE r.self.data]

GetRecordById ==
    \E id \in RecordIds, native \in BOOLEAN :
        \E r \in {get_record_by_id(Self, source, id, native)} :
            /\ Commit(r.self)
            /\ last' = Call("get_record_by_id", id, r.raised, r.err, r.found, r.rec,
                            0, "", "")

GetRecord ==
    \E id \in RecordIds, native \in BOOLEAN :
        \E r \in {get_record(Self, source, id, native)} :
            /\ Commit(r.self)
            /\ last' = Call("get_record", id, r.raised,
                            IF r.raised THEN r.message ELSE "",
                            r.code = 200, r.data, r.code, r.status, r.message)

\* The constraints a request may put on a column; champion is no column of
\* any source.
Equals(v) == [list |-> FALSE, values |-> <<v>>]
OneOf(values) == [list |-> TRUE, values |-> values]

FilterChoices ==
    [gameid |-> {Equals(Str("g1")), OneOf(<<Str("g1"), Str("g2")>>)},
     playername |-> {Equals(Str("p1"))},
     champion |-> {Equals(Str("x"))}]

Filters ==
    UNION {{f \in [cols -> UNION {FilterChoices[c] : c \in cols}] :
               \A c \in cols : f[c] \in FilterChoices[c]} :
           cols \in SUBSET DOMAIN FilterChoices}

FilterData ==
    \E filters \in Filters :
        \E r \in {filter_data(Self, source, filters)} :
            /\ Commit(r.self)
            /\ last' = [Call("filter_data", "", r.raised, r.err, FALSE, NoRecord,
                             0, "", "")
                        EXCEPT !.filters = filters, !.index = r.index]

Next ==
    \/ LoadData
    \/ PreprocessData
    \/ GetRecordById
    \/ GetRecord

Spec == Init /\ [][Next]_vars

(***************************************************************************)
(* The record service: a process that holds one DataLoader and answers     *)
(* record requests and loader queries only (records.py), over the sources  *)
(* that differ in identity columns and in header.                          *)
(***************************************************************************)
QueryColumns == {"gameid", "playername", "date", "champion"}

GetUniqueValues ==
    \E column \in QueryColumns :
        \E r \in {get_unique_values(Self, source, column)} :
            /\ Commit(r.self)
            /\ last' = [Call("get_unique_values", column, r.raised, r.err, FALSE,
                             NoRecord, 0, "", "")
                        EXCEPT !.values = r.values]

ApplyFunctionToColumn ==
    \E column \in QueryColumns, func \in Funcs :
        \E r \in {apply_function_to_column(Self, source, column, func)} :
            /\ Commit(r.self)
            /\ last' = [Call("apply_function_to_column", column, r.raised, r.err,
                             FALSE, NoRecord, 0, "", "")
                        EXCEPT !.values = r.values]

QueryInit ==
    /\ \/ source \in IdentityFiles
       \/ source \in SchemaFiles
       \/ source = MissingFile
    /\ data = NoData
    /\ player_data = NoSubset
    /\ team_data = NoSubset
    /\ stage = "none"
    /\ last = NoCall
    /\ threads = NoThreads
    /\ items = InitialItems

QueryNext ==
    \/ GetRecordById
    \/ GetRecord
    \/ FilterData
    \/ GetUniqueValues
    \/ ApplyFunctionToColumn

QuerySpec == QueryInit /\ [][QueryNext]_vars

(***************************************************************************)
(* The loader used directly: any sequence of its public methods, load_data *)
(* and preprocess_data included, over the sources that differ in identity  *)
(* columns.                                                                *)
(***************************************************************************)
LoaderInit ==
    /\ \/ source \in IdentityFiles
       \/ source = MissingFile
    /\ data = NoData
    /\ player_data = NoSubset
    /\ team_data = NoSubset
    /\ stage = "none"
    /\ last = NoCall
    /\ threads = NoThreads
    /\ items = InitialItems

LoaderNext ==
    \/ LoadData
    \/ PreprocessData
    \/ GetRecordById
    \/ FilterData
    \/ GetUniqueValues
    \/ ApplyFunctionToColumn

LoaderSpec == LoaderInit /\ [][LoaderNext]_vars

(***************************************************************************)
(* The stages of the cleaning pipeline called one by one on the frame the  *)
(* loader holds, loader._stage(loader.data).  A stage assigns into the     *)
(* frame object it is given and returns that object, so the frame the      *)
(* loader holds and the frame the caller passed are the returned one.      *)
(***************************************************************************)
StageOps == {"_handle_missing_values", "_convert_data_types", "_add_derived_features"}

\* The frame object df after the stage that returned r was called on it.
staged(df, r) == r.df

\* The stage op returned or raised r; args holds the call whose result the
\* stage was applied to.
StageCall(op, r) ==
    /\ data' = staged(data, r)
    /\ last' = [Call(op, "", ~r.ok, r.err, FALSE, NoRecord, 0, "", "")
                   EXCEPT !.args = <<IF last.raised THEN "" ELSE last.op>>,
                          !.given = staged(data, r)]
    /\ UNCHANGED <<items, source, player_data, team_data, stage, threads>>

NoFrame(attribute) ==
    Raise("'NoneType' object has no attribute '" \o attribute \o "'", NoData)

HandleMissingValues ==
    \E r \in {IF data.isNone THEN NoFrame("select_dtypes")
              ELSE Ok(handle_missing_values(data))} :
        StageCall("_handle_missing_values", r)

ConvertDataTypes ==
    \E r \in {IF data.isNone THEN NoFrame("columns") ELSE convert_data_types(data)} :
        StageCall("_convert_data_types", r)

AddDerivedFeatures ==
    \E r \in {IF data.isNone THEN NoFrame("columns") ELSE add_derived_features(data)} :
        StageCall("_add_derived_features", r)

\* The sources that differ in dates and flags, in combat statistics and in
\* header.
StageInit ==
    /\ \/ source \in DateFiles
       \/ source \in CombatFiles
       \/ source \in SchemaFiles
    /\ data = NoData
    /\ player_data = NoSubset
    /\ team_data = NoSubset
    /\ stage = "none"
    /\ last = NoCall
    /\ threads = NoThreads
    /\ items = InitialItems

StageNext ==
    \/ LoadData
    \/ PreprocessData
    \/ HandleMissingValues
    \/ ConvertDataTypes
    \/ AddDerivedFeatures

StageSpec == StageInit /\ [][StageNext]_vars

(***************************************************************************)
(* StatsAnalyzer (stats_analyzer.py).  The analyzer is given the frame the *)
(* loader holds, StatsAnalyzer(loader.data), so self.data of the analyzer  *)
(* is the variable data: None before a load, the raw frame after           *)
(* load_data, the cleaned frame after preprocess_data.  The sources of the *)
(* analyzer have the outcome column result next to the expected columns.   *)
(***************************************************************************)
StatsCols == AllCols \cup {"result"}

StatsRow(team, result, kills, date) ==
    [c \in StatsCols |->
        CASE c = "teamname" -> team
          [] c = "result" -> result
          [] c = "kills" -> kills
          [] c = "date" -> date
          [] OTHER -> BaseRow[c]]

\* Records that differ in the outcome (missing, a loss, a win, a count, a
\* letter), and a win of a second team.
Outcomes == {NaN, NpInt(0), NpInt(1), NpInt(MaxVal), Str("W")}
WinRows ==
    {StatsRow(Str("t1"), r, NpInt(1), Str(ValidDate)) : r \in Outcomes}
        \cup {StatsRow(Str("t2"), NpInt(1), NpInt(1), Str(ValidDate))}

\* Records that differ in the value column (missing, a count, a letter), and
\* one with a date that does not parse.
ValueRows ==
    {StatsRow(Str("t1"), NpInt(1), k, Str(ValidDate)) :
        k \in {NaN, NpInt(0), NpInt(1), NpInt(MaxVal), Str("x")}}
        \cup {StatsRow(Str("t1"), NpInt(1), NpInt(1), Str("not a date"))}

\* The records of a set, in some fixed order.
RECURSIVE Enumerated(_)
Enumerated(S) ==
    IF S = {} THEN <<>>
    ELSE LET x == CHOOSE y \in S : TRUE
         IN  <<x>> \o Enumerated(S \ {x})

\* Up to n records of S with repetition, each combination in one order.
CombinationsUpTo(S, n) ==
    LET e == Enumerated(S)
        Ascending(m) ==
            {ix \in [1..m -> 1..Len(e)] : \A i \in 1..(m - 1) : ix[i] <= ix[i + 1]}
    IN  UNION {{[i \in 1..m |-> e[ix[i]]] : ix \in Ascending(m)} : m \in 1..n}

WinFiles == {File(StatsCols, rows) : rows \in CombinationsUpTo(WinRows, MaxRows)}
ValueFiles == {File(StatsCols, rows) : rows \in CombinationsUpTo(ValueRows, MaxRows)}
\* Two records under every header that lacks some of the columns a statistic
\* is asked about.
StatsSchemaFiles ==
    {File(StatsCols \ absent,
          <<StatsRow(Str("t1"), NpInt(1), NpInt(2), Str(ValidDate)),
            [StatsRow(Str("t2"), NpInt(0), NaN, Str(ValidDate))
                EXCEPT !.gameid = Str("g2"), !.playername = NaN]>>) :
        absent \in SUBSET {"teamname", "result", "kills", "date", "playername"}}

IsStatsFile(file) ==
    \/ file \in WinFiles
    \/ file \in ValueFiles
    \/ file \in StatsSchemaFiles

\* pd.api.types.is_numeric_dtype
is_numeric_dtype(dtype) == dtype \in {"int64", "float64", "bool"}

\* The entries of a column at the given index labels, in order.
Entries(df, index, column) == [j \in DOMAIN index |-> df.rows[index[j]][column]]

\* The non-missing entries (Series.dropna, and the skipna of the reductions).
dropna(vals) ==
    LET Present(x) == ~IsNa(x)
    IN  SelectSeq(vals, Present)

\* The sum of numeric entries.
RECURSIVE Sum(_)
Sum(vals) ==
    IF vals = <<>> THEN NpFloat(0, 1)
    ELSE Add(Sum(SubSeq(vals, 1, Len(vals) - 1)), vals[Len(vals)])

\* x / y of two float Series entries: 0 / 0 is NaN.
TrueDiv(x, y) ==
    IF y.n # 0 THEN Div(x, y)
    ELSE IF x.n = 0 THEN NaN
    ELSE Cell("npfloat_inf", x.n, 0, "")

\* The keys of groupby(column): the distinct non-missing entries (sorted by
\* pandas; the result is keyed, so the order is not modelled).
GroupKeys(df, column) == {x \in ColCells(df.rows, column) : ~IsNa(x)}

GroupIndex(df, column, key) ==
    LET InGroup(i) == df.rows[i][column] = key
    IN  SelectSeq(Indices(df), InGroup)

\* The outcome of an analyzer method: raised, whether the returned value is
\* empty, and the returned dict or frame as a function (out).
EmptyResult == [raised |-> FALSE, err |-> "", empty |-> TRUE, out |-> NoStats]
StatsRaised(e) == [raised |-> TRUE, err |-> e, empty |-> FALSE, out |-> NoStats]
StatsResult(out) ==
    [raised |-> FALSE, err |-> "", empty |-> DOMAIN out = {}, out |-> out]

(***************************************************************************)
(* The reductions of numpy and pandas over a sequence of numbers without   *)
(* missing entries.  Of an empty sequence they are NaN.                    *)
(***************************************************************************)
Sub(x, y) == NpFloat(x.n * y.d - y.n * x.d, x.d * y.d)
Mul(x, y) == NpFloat(x.n * y.n, x.d * y.d)
Le(x, y) == x.n * y.d <= y.n * x.d

RECURSIVE SumSq(_)
SumSq(vals) ==
    IF vals = <<>> THEN NpFloat(0, 1)
    ELSE Add(SumSq(SubSeq(vals, 1, Len(vals) - 1)),
             Mul(vals[Len(vals)], vals[Len(vals)]))

Mean(vals) == IF vals = <<>> THEN NaN ELSE Div(Sum(vals), NpInt(Len(vals)))

\* The square root of a fraction: exact when numerator and denominator are
\* squares, else the irrational root of n/d, kept as such.
Sqrt(x) ==
    IF x.k = "nan" THEN NaN
    ELSE IF \E r \in 0..x.n, q \in 1..x.d : r * r = x.n /\ q * q = x.d
    THEN LET r == CHOOSE r \in 0..x.n : r * r = x.n
             q == CHOOSE q \in 1..x.d : q * q = x.d
         IN  NpFloat(r, q)
    ELSE Cell("npfloat_sqrt", x.n, x.d, "")

\* The standard deviation with ddof delta degrees of freedom:
\* sqrt((sum of squares - sum^2 / n) / (n - ddof)).
Std(vals, ddof) ==
    IF Len(vals) <= ddof THEN NaN
    ELSE LET Spread(total) ==
                 Sqrt(Div(Sub(SumSq(vals), Div(Mul(total, total), NpInt(Len(vals)))),
                          NpInt(Len(vals) - ddof)))
         IN  Bind(Sum(vals), Spread)

\* The entries in ascending order.
RECURSIVE Sorted(_)
Sorted(vals) ==
    IF vals = <<>> THEN <<>>
    ELSE LET x == vals[Len(vals)]
             Insert(before) ==
                 LET Smaller(y) == Le(y, x) /\ ~Le(x, y)
                     NotSmaller(y) == ~Smaller(y)
                 IN  SelectSeq(before, Smaller) \o <<x>> \o SelectSeq(before, NotSmaller)
         IN  Bind(Sorted(SubSeq(vals, 1, Len(vals) - 1)), Insert)

Median(vals) ==
    IF vals = <<>> THEN NaN
    ELSE LET Middle(sorted) ==
                 IF Len(sorted) % 2 = 1 THEN sorted[(Len(sorted) + 1) \div 2]
                 ELSE Div(Add(sorted[Len(sorted) \div 2],
                              sorted[Len(sorted) \div 2 + 1]), NpInt(2))
         IN  Bind(Sorted(vals), Middle)

Min(vals) == IF vals = <<>> THEN NaN ELSE Sorted(vals)[1]
Maximum(vals) == IF vals = <<>> THEN NaN ELSE Sorted(vals)[Len(vals)]

(***************************************************************************)
(* StatsAnalyzer.get_basic_stats.  columns is [isNone, cols]: the default  *)
(* None or the requested list.                                             *)
(***************************************************************************)
AllNumeric == [isNone |-> TRUE, cols |-> {}]
Requested(cols) == [isNone |-> FALSE, cols |-> cols]

\* A variant of the selection that keeps every requested column of the frame.
valid_columns_any_dtype(df, columns) ==
    IF columns.isNone
    THEN {c \in Columns(df) : df.dtype[c] \in NumericDtypes}
    ELSE {c \in columns.cols : c \in Columns(df)}

\* numeric_data.columns
valid_columns(df, columns) ==
    IF columns.isNone
    THEN {c \in Columns(df) : df.dtype[c] \in NumericDtypes}
    ELSE {c \in columns.cols : c \in Columns(df) /\ is_numeric_dtype(df.dtype[c])}

\* A variant of the statistics whose count is the number of rows.
col_stats_count_rows(vals) ==
    LET Stats(present) ==
            [mean |-> Mean(present), median |-> Median(present),
             std |-> Std(present, 0), min |-> Min(present),
             max |-> Maximum(present), count |-> NpInt(Len(vals))]
    IN  Bind(dropna(vals), Stats)

\* {stat_name: stat_func(numeric_data[col].dropna()) ...}; np.std is the
\* population standard deviation (ddof = 0).
col_stats(vals) ==
    LET Stats(present) ==
            [mean |-> Mean(present), median |-> Median(present),
             std |-> Std(present, 0), min |-> Min(present),
             max |-> Maximum(present), count |-> NpInt(Len(present))]
    IN  Bind(dropna(vals), Stats)

get_basic_stats(df, columns) ==
    IF df.isNone THEN EmptyResult
    ELSE StatsResult([col \in valid_columns(df, columns) |->
                         col_stats(Column(df, col))])

(***************************************************************************)
(* StatsAnalyzer.get_correlation_matrix and get_categorical_distribution.  *)
(***************************************************************************)
\* An entry of DataFrame.corr(); the value of the coefficient is not modelled.
Coefficient(c, d) == Cell("corr", 0, 1, c \o "," \o d)

get_correlation_matrix(df, columns) ==
    IF df.isNone THEN EmptyResult
    ELSE StatsResult([c \in valid_columns(df, columns) |->
                         [d \in valid_columns(df, columns) |-> Coefficient(c, d)]])

\* pd.api.types.is_object_dtype
is_object_dtype(dtype) == dtype = "object"

\* Series.value_counts(): the number of entries of each distinct non-missing
\* value.
value_counts(df, column) ==
    [key \in GroupKeys(df, column) |-> Len(GroupIndex(df, column, key))]

get_categorical_distribution(df, column) ==
    IF df.isNone \/ column \notin Columns(df) THEN EmptyResult
    ELSE IF ~is_object_dtype(df.dtype[column]) THEN EmptyResult
    ELSE StatsResult([key \in GroupKeys(df, column) |->
                         NpInt(value_counts(df, column)[key])])

(***************************************************************************)
(* StatsAnalyzer.get_time_series_analysis                                  *)
(***************************************************************************)
\* The label of the pd.Grouper bucket of a Timestamp: the month end for 'M',
\* the day for 'D'.
Bucket(x, freq) ==
    IF x.s = ValidDateCanonical
    THEN IF freq = "M" THEN "2022-01-31" ELSE "2022-01-10"
    ELSE IF freq = "M" THEN "1970-01-31" ELSE "1970-01-01"

\* agg(['mean', 'median', 'std', 'count']) of one bucket; the std of a group
\* is the sample standard deviation (ddof = 1).
bucket_stats(vals) ==
    LET Stats(present) ==
            [mean |-> Mean(present), median |-> Median(present),
             std |-> Std(present, 1), count |-> NpInt(Len(present))]
    IN  Bind(dropna(vals), Stats)

get_time_series_analysis(df, date_column, value_column, freq) ==
    IF df.isNone \/ date_column \notin Columns(df) \/ value_column \notin Columns(df)
    THEN EmptyResult
    ELSE IF df.dtype[date_column] # "datetime64"
            /\ \E i \in DOMAIN df.rows :
                  ~DateParses(df.rows[i][date_column], df.dtype[date_column])
    THEN EmptyResult
    ELSE LET Series(dates) ==
                 LET Dated(i) == dates[i].k = "ts"
                     buckets == {Bucket(dates[i], freq) : i \in {j \in DOMAIN dates : Dated(j)}}
                     InBucket(b) ==
                         LET Member(i) == Dated(i) /\ Bucket(dates[i], freq) = b
                         IN  SelectSeq(Indices(df), Member)
                 IN  IF buckets = {} THEN EmptyResult
                     ELSE IF ~is_numeric_dtype(df.dtype[value_column])
                     THEN StatsRaised("agg function failed [how->mean,dtype->object]")
                     ELSE StatsResult([b \in buckets |->
                                          bucket_stats(Entries(df, InBucket(b),
                                                               value_column))])
         IN  Bind([i \in DOMAIN df.rows |->
                      to_datetime(df.rows[i][date_column], df.dtype[date_column])],
                  Series)

(***************************************************************************)
(* StatsAnalyzer.get_group_comparison                                      *)
(***************************************************************************)
group_stats(vals) ==
    LET Stats(present) ==
            [mean |-> Mean(present), median |-> Median(present),
             std |-> Std(present, 1), min |-> Min(present),
             max |-> Maximum(present), count |-> NpInt(Len(present))]
    IN  Bind(dropna(vals), Stats)

get_group_comparison(df, group_column, value_column) ==
    IF df.isNone \/ group_column \notin Columns(df) \/ value_column \notin Columns(df)
    THEN EmptyResult
    ELSE IF ~is_numeric_dtype(df.dtype[value_column]) THEN EmptyResult
    ELSE StatsResult([key \in GroupKeys(df, group_column) |->
                         group_stats(Entries(df, GroupIndex(df, group_column, key),
                                             value_column))])

(***************************************************************************)
(* StatsAnalyzer.get_top_n_records.  The outcome is the index of the       *)
(* returned frame; order is one of the orders sort_values may give to      *)
(* equal entries.                                                          *)
(***************************************************************************)
\* The default of n.
DefaultN == 10

\* The place of a text of the model in Python's order of strings: the digit
\* strings, then "unknown", then the other texts.
TextRank(text) ==
    IF \E i \in 0..9 : ToString(i) = text
    THEN CHOOSE i \in 0..9 : ToString(i) = text
    ELSE IF text = "unknown" THEN 10 ELSE 11

\* x sorts before y in ascending order; missing entries sort last either way.
Before(x, y) ==
    IF IsNumber(x) /\ IsNumber(y) THEN Le(x, y) /\ ~Le(y, x)
    ELSE x.k = "str" /\ y.k = "str" /\ TextRank(x.s) < TextRank(y.s)

Orders(n) == {p \in [1..n -> 1..n] : \A i, j \in 1..n : i # j => p[i] # p[j]}

sort_values(df, column, ascending) ==
    {p \in Orders(Len(df.rows)) :
        \A i, j \in DOMAIN p : i < j =>
            LET x == df.rows[p[i]][column]
                y == df.rows[p[j]][column]
            IN  /\ IsNa(x) => IsNa(y)
                /\ ~IsNa(x) /\ ~IsNa(y) =>
                      IF ascending THEN ~Before(y, x) ELSE ~Before(x, y)}

\* sorted_data.head(n), for n >= 0
head(index, n) == SubSeq(index, 1, IF n < Len(index) THEN n ELSE Len(index))

get_top_n_records(df, column, n, ascending, order) ==
    IF df.isNone \/ column \notin Columns(df)
    THEN [raised |-> FALSE, err |-> "", empty |-> TRUE, out |-> NoStats, index |-> <<>>]
    ELSE [raised |-> FALSE, err |-> "", empty |-> head(order, n) = <<>>,
          out |-> NoStats, index |-> head(order, n)]

(***************************************************************************)
(* StatsAnalyzer.get_performance_metrics, for the metric columns the       *)
(* sources of the model have (kills, deaths, assists).                     *)
(***************************************************************************)
get_performance_metrics(df) ==
    IF df.isNone THEN EmptyResult
    ELSE IF ~has_kda_sources(df) THEN StatsResult(NoStats)
    ELSE IF \E i \in DOMAIN df.rows : kda_raises(df.rows[i])
    THEN StatsRaised("unsupported operand type(s)")
    ELSE StatsResult([m \in {"avg_kda"} |->
                         [value |-> Mean(dropna([i \in DOMAIN df.rows |->
                                                    kda_of(df.rows[i])]))]])

(***************************************************************************)
(* StatsAnalyzer.calculate_win_rates                                       *)
(***************************************************************************)
\* A variant that takes the size of the group as games_played.
win_rate_of_size(outcomes) ==
    LET Rate(wins) ==
            [games_played |-> NpInt(Len(outcomes)), wins |-> wins,
             win_rate |-> TrueDiv(wins, NpInt(Len(outcomes)))]
    IN  Bind(Sum(dropna(outcomes)), Rate)

\* agg(games_played='count', wins='sum') of one group and the quotient.
win_rate_of(outcomes) ==
    LET Rate(wins) ==
            [games_played |-> NpInt(Len(dropna(outcomes))), wins |-> wins,
             win_rate |-> TrueDiv(wins, NpInt(Len(dropna(outcomes))))]
    IN  Bind(Sum(dropna(outcomes)), Rate)

calculate_win_rates(df, group_column) ==
    IF df.isNone \/ group_column \notin Columns(df) \/ "result" \notin Columns(df)
    THEN EmptyResult
    ELSE IF GroupKeys(df, group_column) = {} THEN EmptyResult
    ELSE IF ~is_numeric_dtype(df.dtype["result"])
    THEN StatsRaised("unsupported operand type(s) for /: 'str' and 'int'")
    ELSE StatsResult([key \in GroupKeys(df, group_column) |->
                         win_rate_of(Entries(df, GroupIndex(df, group_column, key),
                                             "result"))])

(***************************************************************************)
(* The analyzer over the loader: each action is StatsAnalyzer(data).m(...) *)
(* for one method m; the loader's own actions build the frame.             *)
(***************************************************************************)
StatsCall(op, args, r) ==
    [Call(op, "", r.raised, r.err, FALSE, NoRecord, 0, "", "")
        EXCEPT !.args = args, !.empty = r.empty, !.out = r.out]

Analyzed(op, args, r) ==
    /\ last' = StatsCall(op, args, r)
    /\ UNCHANGED <<items, source, data, player_data, team_data, stage, threads>>

Selections ==
    {AllNumeric} \cup
    {Requested(cols) : cols \in {{}, {"kills"}, {"teamname"}, {"champion"}, {"playoffs"},
                                 {"kills", "playoffs"},
                                 {"kills", "teamname", "champion"}}}

\* The selections, and the list of every column of the dataset.
GetBasicStats ==
    \E columns \in Selections \cup {Requested(Columns(data))} :
        \E r \in {get_basic_stats(data, columns)} :
            Analyzed("get_basic_stats", columns, r)

GetCorrelationMatrix ==
    \E columns \in {AllNumeric, Requested({"kills", "playoffs"}), Requested({"teamname"})} :
        \E r \in {get_correlation_matrix(data, columns)} :
            Analyzed("get_correlation_matrix", columns, r)

GetCategoricalDistribution ==
    \E column \in {"teamname", "kills", "champion"} :
        \E r \in {get_categorical_distribution(data, column)} :
            Analyzed("get_categorical_distribution", <<column>>, r)

GetTimeSeriesAnalysis ==
    \E args \in {<<"date", "kills", "M">>, <<"date", "kills", "D">>,
                 <<"date", "teamname", "M">>, <<"date", "champion", "M">>,
                 <<"champion", "kills", "M">>} :
        \E r \in {get_time_series_analysis(data, args[1], args[2], args[3])} :
            Analyzed("get_time_series_analysis", args, r)

GetGroupComparison ==
    \E args \in {<<"teamname", "kills">>, <<"teamname", "playername">>,
                 <<"teamname", "champion">>, <<"champion", "kills">>} :
        \E r \in {get_group_comparison(data, args[1], args[2])} :
            Analyzed("get_group_comparison", args, r)

GetTopNRecords ==
    \E column \in {"kills", "champion"}, n \in {1, DefaultN}, ascending \in BOOLEAN :
        \E order \in IF ~data.isNone /\ column \in Columns(data)
                     THEN sort_values(data, column, ascending) ELSE {<<>>} :
            \E r \in {get_top_n_records(data, column, n, ascending, order)} :
                /\ last' = [StatsCall("get_top_n_records", <<column>>, r)
                               EXCEPT !.index = r.index]
                /\ UNCHANGED <<items, source, data, player_data, team_data, stage, threads>>

CalculateWinRates ==
    \E group_column \in {"teamname", "champion"} :
        \E r \in {calculate_win_rates(data, group_column)} :
            Analyzed("calculate_win_rates", <<group_column>>, r)

GetPerformanceMetrics ==
    \E r \in {get_performance_metrics(data)} :
        Analyzed("get_performance_metrics", <<>>, r)

StatsInit ==
    /\ IsStatsFile(source)
    /\ data = NoData
    /\ player_data = NoSubset
    /\ team_data = NoSubset
    /\ stage = "none"
    /\ last = NoCall
    /\ threads = NoThreads
    /\ items = InitialItems

StatsNext ==
    \/ LoadData
    \/ PreprocessData
    \/ GetBasicStats
    \/ GetCorrelationMatrix
    \/ GetCategoricalDistribution
    \/ GetTimeSeriesAnalysis
    \/ GetGroupComparison
    \/ GetTopNRecords
    \/ CalculateWinRates
    \/ GetPerformanceMetrics

StatsSpec == StatsInit /\ [][StatsNext]_vars

(***************************************************************************)
(* DataVisualizer (data_visualizer.py).  A figure is described by what the *)
(* builder drew: a placeholder is a figure that holds one text (message);  *)
(* a chart has a kind, a title, the grouping column (hue), the categories  *)
(* shown, the counts of its bars or slices, and a note under the plot      *)
(* (annotation), and for a scatter or box plot the index labels of the     *)
(* records handed to the plotting call (plotted).  The texts are written   *)
(* without diacritics.                                                     *)
(***************************************************************************)
NoCounts == [key \in {} |-> 0]
NoPanels == <<>>

Chart(kind, title) ==
    [raised |-> FALSE, err |-> "", placeholder |-> FALSE, message |-> "",
     kind |-> kind, title |-> title, hue |-> "", shown |-> {}, counts |-> NoCounts,
     annotation |-> "", panels |-> NoPanels, blank |-> 0, plotted |-> <<>>]

\* ax.text(0.5, 0.5, message, ...) on an empty figure
Placeholder(message) ==
    [Chart("text", "") EXCEPT !.placeholder = TRUE, !.message = message]

PlotRaised(e) == [Chart("", "") EXCEPT !.raised = TRUE, !.err = e]

NotAvailable == "Dados nao disponiveis"
NotNumeric(column) == "A coluna " \o column \o " nao e numerica"
MustBeNumeric == "As colunas devem ser numericas"
TopCategoriesNote == "Mostrando apenas as 10 categorias mais frequentes"

\* The number of categories a grouped scatter or box plot shows at most.
TopCategories == 10
\* The default of top_n of a bar or pie chart.
DefaultTopN == 10

\* Series.nunique(): the number of distinct non-missing entries.
nunique(df, column) == Cardinality(GroupKeys(df, column))

\* value_counts().nlargest(n).index: n of the most frequent values; which of
\* several equally frequent values are taken depends on the order
\* value_counts gives them, so every such choice is a possible result.
nlargest(df, column, n) ==
    LET Choices(counts) ==
            {top \in SUBSET DOMAIN counts :
                /\ Cardinality(top) =
                      IF n < Cardinality(DOMAIN counts) THEN n
                      ELSE Cardinality(DOMAIN counts)
                /\ \A a \in top : \A b \in DOMAIN counts \ top : counts[a] >= counts[b]}
    IN  Bind(value_counts(df, column), Choices)

\* Whether the plotting library draws the distribution of a bool column is a
\* matter of its version: with draws_bool it does, without it raises.
DistributionRaises(df, column, draws_bool) == df.dtype[column] = "bool" /\ ~draws_bool

(***************************************************************************)
(* DataVisualizer.create_histogram                                         *)
(***************************************************************************)
\* A variant that tests that the column exists only.
create_histogram_unchecked(df, column, draws_bool) ==
    IF df.isNone \/ column \notin Columns(df) THEN Placeholder(NotAvailable)
    ELSE Chart("histogram", "Distribuicao de " \o column)

create_histogram(df, column, draws_bool) ==
    IF df.isNone \/ column \notin Columns(df) THEN Placeholder(NotAvailable)
    ELSE IF ~is_numeric_dtype(df.dtype[column]) THEN Placeholder(NotNumeric(column))
    ELSE IF DistributionRaises(df, column, draws_bool)
    THEN PlotRaised("numpy boolean subtract is not supported")
    ELSE Chart("histogram", "Distribuicao de " \o column)

(***************************************************************************)
(* DataVisualizer.create_scatter_plot and create_box_plot.  The empty      *)
(* string stands for no grouping column (None); top is the result of       *)
(* nlargest on the grouping column.                                        *)
(***************************************************************************)
\* The chart with its grouping: the top categories and a note when the
\* grouping column is categorical with more than ten values, every value of
\* the column otherwise, no grouping without a grouping column of the frame.
grouped(chart, df, group_column, top) ==
    IF group_column = "" \/ group_column \notin Columns(df)
    THEN [chart EXCEPT !.plotted = Indices(df)]
    ELSE IF is_object_dtype(df.dtype[group_column])
            /\ nunique(df, group_column) > TopCategories
    THEN [chart EXCEPT !.hue = group_column, !.shown = top,
                       !.annotation = TopCategoriesNote,
                       !.plotted = SelectSeq(Indices(df),
                                       LAMBDA i : df.rows[i][group_column] \in top)]
    ELSE [chart EXCEPT !.hue = group_column, !.shown = GroupKeys(df, group_column),
                       !.plotted = Indices(df)]

create_scatter_plot(df, x_column, y_column, hue_column, top) ==
    IF df.isNone \/ x_column \notin Columns(df) \/ y_column \notin Columns(df)
    THEN Placeholder(NotAvailable)
    ELSE IF ~(is_numeric_dtype(df.dtype[x_column]) /\ is_numeric_dtype(df.dtype[y_column]))
    THEN Placeholder(MustBeNumeric)
    ELSE grouped(Chart("scatter", y_column \o " vs " \o x_column), df, hue_column, top)

create_box_plot(df, value_column, group_column, top, draws_bool) ==
    IF df.isNone \/ value_column \notin Columns(df) THEN Placeholder(NotAvailable)
    ELSE IF ~is_numeric_dtype(df.dtype[value_column])
    THEN Placeholder(NotNumeric(value_column))
    ELSE IF DistributionRaises(df, value_column, draws_bool)
    THEN PlotRaised("numpy boolean subtract is not supported")
    ELSE grouped(Chart("box", IF group_column = ""
                              THEN "Box Plot de " \o value_column
                              ELSE "Box Plot de " \o value_column \o " por "
                                       \o group_column),
                 df, group_column, top)

(***************************************************************************)
(* DataVisualizer.create_bar_chart and create_pie_chart.  top is the       *)
(* result of nlargest(top_n) on the column.                                *)
(***************************************************************************)
create_bar_chart(df, column, top_n, top) ==
    IF df.isNone \/ column \notin Columns(df) THEN Placeholder(NotAvailable)
    ELSE [Chart("bar", "Top " \o ToString(top_n) \o " valores de " \o column)
             EXCEPT !.shown = top,
                    !.counts = [key \in top |-> value_counts(df, column)[key]]]

Others == Str("Outros")

\* A variant whose remainder slice holds the count of every value.
create_pie_chart_others_total(df, column, top_n, top) ==
    IF df.isNone \/ column \notin Columns(df) THEN Placeholder(NotAvailable)
    ELSE LET Slices(counts) ==
                 LET total == Len(dropna(Column(df, column)))
                 IN  IF Len(unique(Column(df, column))) > top_n
                     THEN [Chart("pie", "Distribuicao de " \o column)
                              EXCEPT !.shown = top \cup {Others},
                                     !.counts = [key \in top \cup {Others} |->
                                                    IF key \in top THEN counts[key]
                                                    ELSE total]]
                     ELSE [Chart("pie", "Distribuicao de " \o column)
                              EXCEPT !.shown = top,
                                     !.counts = [key \in top |-> counts[key]]]
         IN  Bind(value_counts(df, column), Slices)

create_pie_chart(df, column, top_n, top) ==
    IF df.isNone \/ column \notin Columns(df) THEN Placeholder(NotAvailable)
    ELSE LET Slices(counts) ==
                 LET total == Len(dropna(Column(df, column)))
                     shown == Len(dropna(Entries(df,
                                  SelectSeq(Indices(df),
                                            LAMBDA i : df.rows[i][column] \in top),
                                  column)))
                 IN  IF Len(unique(Column(df, column))) > top_n
                     THEN [Chart("pie", "Distribuicao de " \o column)
                              EXCEPT !.shown = top \cup {Others},
                                     !.counts = [key \in top \cup {Others} |->
                                                    IF key \in top THEN counts[key]
                                                    ELSE total - shown]]
                     ELSE [Chart("pie", "Distribuicao de " \o column)
                              EXCEPT !.shown = top,
                                     !.counts = [key \in top |-> counts[key]]]
         IN  Bind(value_counts(df, column), Slices)

(***************************************************************************)
(* DataVisualizer.create_heatmap, create_time_series and                   *)
(* create_multi_plot_dashboard.  A list of columns is a sequence.          *)
(***************************************************************************)
\* The number of columns a heatmap shows at most.
HeatmapColumns == 20
\* The number of panels in a row of the dashboard.
GridColumns == 3
\* The number of bars of a categorical panel of the dashboard.
PanelBars == 10

\* The columns of a set in some order (the order of the columns of a frame
\* is not modelled).
RECURSIVE SeqOf(_)
SeqOf(set) ==
    IF set = {} THEN <<>>
    ELSE LET c == CHOOSE x \in set : TRUE
         IN  <<c>> \o SeqOf(set \ {c})

create_heatmap(df, columns) ==
    IF df.isNone THEN Placeholder(NotAvailable)
    ELSE LET Selected(c) == c \in Columns(df) /\ is_numeric_dtype(df.dtype[c])
             Draw(numeric_cols) ==
                 IF numeric_cols = <<>>
                 THEN Placeholder("Nenhuma coluna numerica disponivel")
                 ELSE [Chart("heatmap", "Mapa de Calor de Correlacao")
                          EXCEPT !.panels = head(numeric_cols, HeatmapColumns)]
         IN  Bind(IF columns # <<>> THEN SelectSeq(columns, Selected)
                  ELSE SeqOf({c \in Columns(df) : df.dtype[c] \in NumericDtypes}),
                  Draw)

create_time_series(df, date_column, value_column, freq) ==
    IF df.isNone \/ date_column \notin Columns(df) \/ value_column \notin Columns(df)
    THEN Placeholder(NotAvailable)
    ELSE IF df.dtype[date_column] # "datetime64"
            /\ \E i \in DOMAIN df.rows :
                  ~DateParses(df.rows[i][date_column], df.dtype[date_column])
    THEN Placeholder("A coluna " \o date_column \o " nao pode ser convertida para data")
    ELSE IF ~is_numeric_dtype(df.dtype[value_column])
    THEN Placeholder(NotNumeric(value_column))
    ELSE LET Line(dates) ==
                 [Chart("line", "Serie Temporal de " \o value_column)
                     EXCEPT !.shown = {Str(Bucket(dates[i], freq)) :
                                          i \in {j \in DOMAIN dates : dates[j].k = "ts"}}]
         IN  Bind([i \in DOMAIN df.rows |->
                      to_datetime(df.rows[i][date_column], df.dtype[date_column])],
                  Line)

\* One panel per column of the frame: a histogram of a numeric column, the
\* bars of the most frequent values of any other column; blank is the number
\* of axes of the grid switched off.
create_multi_plot_dashboard(df, columns, draws_bool) ==
    IF df.isNone THEN Placeholder(NotAvailable)
    ELSE LET Valid(c) == c \in Columns(df)
             Grid(present) ==
                 LET n_cols == IF Len(present) < GridColumns
                               THEN Len(present) ELSE GridColumns
                     n_rows == (Len(present) + n_cols - 1) \div n_cols
                 IN  IF present = <<>>
                     THEN Placeholder("Nenhuma coluna valida especificada")
                     ELSE IF \E i \in DOMAIN present :
                                /\ is_numeric_dtype(df.dtype[present[i]])
                                /\ DistributionRaises(df, present[i], draws_bool)
                     THEN PlotRaised("numpy boolean subtract is not supported")
                     ELSE [Chart("dashboard", "")
                              EXCEPT !.panels =
                                         [i \in DOMAIN present |->
                                             IF is_numeric_dtype(df.dtype[present[i]])
                                             THEN [column |-> present[i],
                                                   kind |-> "histogram", bars |-> 0]
                                             ELSE [column |-> present[i],
                                                   kind |-> "bar",
                                                   bars |-> IF nunique(df, present[i])
                                                                  < PanelBars
                                                            THEN nunique(df, present[i])
                                                            ELSE PanelBars]],
                                     !.blank = n_rows * n_cols - Len(present)]
         IN  Bind(SelectSeq(columns, Valid), Grid)

(***************************************************************************)
(* The visualizer over the loader: each action is DataVisualizer(data).m() *)
(* for one builder m.                                                      *)
(***************************************************************************)
\* The call, its arguments and the figure it returned.
Drawn(op, args, fig) ==
    /\ last' = [Call(op, "", fig.raised, fig.err, FALSE, NoRecord, 0, "", "")
                   EXCEPT !.args = args, !.fig = fig]
    /\ UNCHANGED <<items, source, data, player_data, team_data, stage, threads>>

\* The values nlargest may return for a column, {} for a column the frame
\* does not have.
Tops(column, n) ==
    IF data.isNone \/ column \notin Columns(data) THEN {{}}
    ELSE nlargest(data, column, n)

CreateHistogram ==
    \E column \in {"kills", "teamname", "playoffs", "champion"}, draws_bool \in BOOLEAN :
        \E fig \in {create_histogram(data, column, draws_bool)} :
            Drawn("create_histogram", <<column>>, fig)

CreateScatterPlot ==
    \E args \in {<<"kills", "deaths", "">>, <<"kills", "deaths", "teamname">>,
                 <<"kills", "deaths", "champion">>, <<"kills", "deaths", "assists">>,
                 <<"kills", "teamname", "">>, <<"champion", "kills", "">>} :
        \E top \in Tops(args[3], TopCategories) :
            \E fig \in {create_scatter_plot(data, args[1], args[2], args[3], top)} :
                Drawn("create_scatter_plot", args, fig)

CreateBarChart ==
    \E column \in {"teamname", "kills", "champion"}, top_n \in {1, DefaultTopN} :
        \E top \in Tops(column, top_n) :
            \E fig \in {create_bar_chart(data, column, top_n, top)} :
                Drawn("create_bar_chart", <<column, top_n>>, fig)

CreateHeatmap ==
    \E columns \in {<<>>, <<"kills", "deaths">>, <<"teamname", "champion">>} :
        \E fig \in {create_heatmap(data, columns)} :
            Drawn("create_heatmap", columns, fig)

CreateTimeSeries ==
    \E args \in {<<"date", "kills", "M">>, <<"date", "teamname", "M">>,
                 <<"champion", "kills", "D">>} :
        \E fig \in {create_time_series(data, args[1], args[2], args[3])} :
            Drawn("create_time_series", args, fig)

CreateBoxPlot ==
    \E args \in {<<"kills", "">>, <<"kills", "teamname">>, <<"kills", "champion">>,
                 <<"kills", "deaths">>, <<"teamname", "">>, <<"champion", "">>,
                 <<"playoffs", "">>},
       draws_bool \in BOOLEAN :
        \E top \in Tops(args[2], TopCategories) :
            \E fig \in {create_box_plot(data, args[1], args[2], top, draws_bool)} :
                Drawn("create_box_plot", args, fig)

CreatePieChart ==
    \E column \in {"teamname", "kills", "champion"}, top_n \in {1, DefaultTopN} :
        \E top \in Tops(column, top_n) :
            \E fig \in {create_pie_chart(data, column, top_n, top)} :
                Drawn("create_pie_chart", <<column, top_n>>, fig)

CreateMultiPlotDashboard ==
    \E columns \in {<<>>, <<"champion">>, <<"kills", "teamname">>,
                    <<"kills", "teamname", "playoffs", "date">>},
       draws_bool \in BOOLEAN :
        \E fig \in {create_multi_plot_dashboard(data, columns, draws_bool)} :
            Drawn("create_multi_plot_dashboard", columns, fig)

VizNext ==
    \/ LoadData
    \/ PreprocessData
    \/ CreateHistogram
    \/ CreateScatterPlot
    \/ CreateBarChart
    \/ CreateHeatmap
    \/ CreateTimeSeries
    \/ CreateBoxPlot
    \/ CreatePieChart
    \/ CreateMultiPlotDashboard

VizSpec == StatsInit /\ [][VizNext]_vars

(***************************************************************************)
(* The grouped plots over datasets with about as many groups as the        *)
(* builders show at most.                                                  *)
(***************************************************************************)
\* TopCategories + 2 records of the given number of teams, each with its own
\* number of assists; with missing, the last record has no team name.
GroupedFile(teams, missing) ==
    File(StatsCols,
         [i \in 1..(TopCategories + 2) |->
             [StatsRow(IF missing /\ i = TopCategories + 2 THEN NaN
                       ELSE Str("t" \o ToString(((i - 1) % teams) + 1)),
                       NpInt(1), NpInt(1), Str(ValidDate))
                 EXCEPT !.assists = NpInt(i)]])

GroupedFiles ==
    {GroupedFile(teams, missing) :
        teams \in {TopCategories, TopCategories + 1}, missing \in BOOLEAN}

GroupedInit ==
    /\ source \in GroupedFiles
    /\ data = NoData
    /\ player_data = NoSubset
    /\ team_data = NoSubset
    /\ stage = "none"
    /\ last = NoCall
    /\ threads = NoThreads
    /\ items = InitialItems

GroupedNext ==
    \/ LoadData
    \/ PreprocessData
    \/ CreateScatterPlot
    \/ CreateBoxPlot

GroupedSpec == GroupedInit /\ [][GroupedNext]_vars

(***************************************************************************)
(* app.create_visualization: the dispatcher from a chart-type tag and the  *)
(* keyword arguments of the builder to a figure.  The outcome carries      *)
(* whether None was returned (none), the text given to st.error, and the   *)
(* figure.                                                                 *)
(***************************************************************************)
Unsupported(viz_type) == "Tipo de visualizacao nao suportado: " \o viz_type

create_visualization(df, viz_type, kwargs, top, draws_bool) ==
    LET Figure(fig) == [none |-> FALSE, error |-> "", fig |-> fig]
    IN  CASE viz_type = "histogram" ->
                 Figure(create_histogram(df, kwargs[1], draws_bool))
          [] viz_type = "scatter" ->
                 Figure(create_scatter_plot(df, kwargs[1], kwargs[2], kwargs[3], top))
          [] viz_type = "bar" ->
                 Figure(create_bar_chart(df, kwargs[1], kwargs[2], top))
          [] viz_type = "heatmap" ->
                 Figure(create_heatmap(df, kwargs))
          [] viz_type = "box" ->
                 Figure(create_box_plot(df, kwargs[1], kwargs[2], top, draws_bool))
          [] viz_type = "pie" ->
                 Figure(create_pie_chart(df, kwargs[1], kwargs[2], top))
          [] OTHER ->
                 [none |-> TRUE, error |-> Unsupported(viz_type), fig |-> Chart("", "")]

\* The tags of the chart variants of the visualizer, and a tag of no variant.
VizTypes ==
    {"histogram", "scatter", "bar", "heatmap", "box", "pie", "dashboard", "radar"}

\* Keyword arguments of the builder a tag stands for.
Kwargs(viz_type) ==
    CASE viz_type = "histogram" -> {<<"kills">>, <<"teamname">>, <<"playoffs">>}
      [] viz_type = "scatter" -> {<<"kills", "deaths", "teamname">>,
                                  <<"kills", "teamname", "">>}
      [] viz_type \in {"bar", "pie"} -> {<<"teamname", 1>>, <<"champion", DefaultTopN>>}
      [] viz_type = "heatmap" -> {<<"kills", "deaths">>}
      [] viz_type = "box" -> {<<"kills", "teamname">>, <<"teamname", "">>}
      [] viz_type = "dashboard" -> {<<"kills", "teamname">>}
      [] OTHER -> {<<>>}

\* The column and the number of values the builder of a tag takes nlargest of.
Largest(viz_type, kwargs) ==
    CASE viz_type = "scatter" -> Tops(kwargs[3], TopCategories)
      [] viz_type = "box" -> Tops(kwargs[2], TopCategories)
      [] viz_type \in {"bar", "pie"} -> Tops(kwargs[1], kwargs[2])
      [] OTHER -> {{}}

CreateVisualization ==
    \E viz_type \in VizTypes, draws_bool \in BOOLEAN :
        \E kwargs \in Kwargs(viz_type) :
            \E top \in Largest(viz_type, kwargs) :
                \E r \in {create_visualization(data, viz_type, kwargs, top, draws_bool)} :
                    /\ last' = [Call("create_visualization", viz_type, r.fig.raised,
                                     r.fig.err, ~r.none, NoRecord, 0, "", r.error)
                                   EXCEPT !.args = kwargs, !.fig = r.fig]
                    /\ UNCHANGED <<items, source, data, player_data, team_data, stage, threads>>

DispatchNext ==
    \/ LoadData
    \/ PreprocessData
    \/ CreateVisualization

DispatchSpec == StatsInit /\ [][DispatchNext]_vars

(***************************************************************************)
(* The charts of a categorical column over the sources that differ in      *)
(* identity columns, where a team name can be missing.                     *)
(***************************************************************************)
CategoryNext ==
    \/ LoadData
    \/ PreprocessData
    \/ CreateBarChart
    \/ CreatePieChart

CategorySpec == LoaderInit /\ [][CategoryNext]_vars

(***************************************************************************)
(* The loader with every component downstream of it: the record endpoint,  *)
(* the loader's queries, the analyzer and the visualizer over one dataset, *)
(* for the sources that differ in header.                                  *)
(***************************************************************************)
DownstreamInit ==
    /\ source \in StatsSchemaFiles
    /\ data = NoData
    /\ player_data = NoSubset
    /\ team_data = NoSubset
    /\ stage = "none"
    /\ last = NoCall
    /\ threads = NoThreads
    /\ items = InitialItems

DownstreamNext ==
    \/ PreprocessData
    \/ GetRecordById
    \/ GetRecord
    \/ FilterData
    \/ GetUniqueValues
    \/ ApplyFunctionToColumn
    \/ GetBasicStats
    \/ GetCorrelationMatrix
    \/ GetCategoricalDistribution
    \/ GetTimeSeriesAnalysis
    \/ GetGroupComparison
    \/ GetTopNRecords
    \/ CalculateWinRates
    \/ GetPerformanceMetrics
    \/ CreateHistogram
    \/ CreateScatterPlot
    \/ CreateBarChart
    \/ CreateHeatmap
    \/ CreateTimeSeries
    \/ CreateBoxPlot
    \/ CreatePieChart
    \/ CreateMultiPlotDashboard

DownstreamSpec == DownstreamInit /\ [][DownstreamNext]_vars

(***************************************************************************)
(* The /record/<id> endpoint under a threaded server: every request thread *)
(* runs the handler over the same module-level data_loader, and a thread   *)
(* switch can happen between any two statements.  One step is one          *)
(* statement of the handler or one stage of the pipeline (a stage assigns  *)
(* into the frame it is given, so its effect is visible to every thread    *)
(* that holds the frame).  Nothing in the handler or the loader takes a    *)
(* lock.                                                                   *)
(***************************************************************************)
\* The frame self.data refers to.
Shared(th) == IF th.ref = 0 THEN NoData ELSE th.heap[th.ref]

\* What the cleaning stages make of the source.
PreprocessedFrame(file) == cleaning_pipeline(read_csv(file)).df

\* The threads between the call of reduce and the assignment of its result.
InPipeline(t) == threads.pc[t] \in {"fill", "convert", "derive", "assign"}

\* The handler returns r to the client of thread t.
Respond(t, r) ==
    last' = Call("get_record", threads.id[t], r.raised,
                 IF r.raised THEN r.message ELSE "",
                 r.code = 200, r.data, r.code, r.status, r.message)

\* A stage of the reduce call of thread t ran on its frame; failed is the
\* stage value of a raise.
Staged(t, r, next, failed) ==
    \E th \in {[threads EXCEPT !.heap[threads.df[t]] = r.df,
                               !.pc[t] = IF r.ok THEN next ELSE "done"]} :
        /\ threads' = th
        /\ data' = Shared(th)
        /\ stage' = IF ~r.ok /\ threads.df[t] = threads.ref THEN failed ELSE stage
        /\ IF r.ok THEN UNCHANGED last ELSE Respond(t, ServerError(r.err, Self))
        /\ UNCHANGED <<items, source, player_data, team_data>>

\* if data_loader.data is None:
ThreadBegins ==
    \E t \in Threads, id \in RecordIds :
        /\ threads.pc[t] = "idle"
        /\ threads' = [threads EXCEPT !.id[t] = id,
                                      !.pc[t] = IF data.isNone THEN "preprocess"
                                                ELSE "lookup"]
        /\ UNCHANGED <<items, source, data, player_data, team_data, stage, last>>

\* preprocess_data: if self.data is None:
ThreadEntersPreprocess ==
    \E t \in Threads :
        /\ threads.pc[t] = "preprocess"
        /\ threads' = [threads EXCEPT !.pc[t] = IF data.isNone THEN "load"
                                                ELSE "reduce"]
        /\ UNCHANGED <<items, source, data, player_data, team_data, stage, last>>

\* self.load_data()
ThreadLoads ==
    \E t \in Threads :
        /\ threads.pc[t] = "load"
        /\ \E r \in {load_data(Self, source)} :
              IF r.raised
              THEN /\ threads' = [threads EXCEPT !.pc[t] = "done"]
                   /\ Respond(t, ServerError(r.err, Self))
                   /\ UNCHANGED <<items, source, data, player_data, team_data, stage>>
              ELSE /\ threads' = [threads EXCEPT !.heap[t] = r.self.data,
                                                 !.ref = t,
                                                 !.pc[t] = "reduce"]
                   /\ data' = r.self.data
                   /\ stage' = r.self.stage
                   /\ UNCHANGED <<items, source, player_data, team_data, last>>

\* reduce(lambda df, func: func(df), cleaning_pipeline, self.data): the
\* argument is the frame self.data refers to when the call is made.
ThreadCallsReduce ==
    \E t \in Threads :
        /\ threads.pc[t] = "reduce"
        /\ threads' = [threads EXCEPT !.df[t] = threads.ref, !.pc[t] = "fill"]
        /\ UNCHANGED <<items, source, data, player_data, team_data, stage, last>>

ThreadFillsMissing ==
    \E t \in Threads :
        /\ threads.pc[t] = "fill"
        /\ Staged(t, Ok(handle_missing_values(threads.heap[threads.df[t]])),
                  "convert", stage)

ThreadConvertsTypes ==
    \E t \in Threads :
        /\ threads.pc[t] = "convert"
        /\ Staged(t, convert_data_types(threads.heap[threads.df[t]]),
                  "derive", "convert_failed")

ThreadAddsDerived ==
    \E t \in Threads :
        /\ threads.pc[t] = "derive"
        /\ Staged(t, add_derived_features(threads.heap[threads.df[t]]),
                  "assign", "derive_failed")

\* self.data = <the result of reduce>
ThreadAssigns ==
    \E t \in Threads :
        /\ threads.pc[t] = "assign"
        /\ \E th \in {[threads EXCEPT !.ref = threads.df[t], !.pc[t] = "split"]} :
              /\ threads' = th
              /\ data' = Shared(th)
        /\ UNCHANGED <<items, source, player_data, team_data, stage, last>>

\* self._split_data()
ThreadSplits ==
    \E t \in Threads :
        /\ threads.pc[t] = "split"
        /\ \E r \in {split_data(Self)} :
              /\ player_data' = r.self.player_data
              /\ team_data' = r.self.team_data
              /\ stage' = IF r.raised THEN "split_failed" ELSE "done"
              /\ threads' = [threads EXCEPT !.pc[t] = IF r.raised THEN "done"
                                                      ELSE "lookup"]
              /\ IF r.raised THEN Respond(t, ServerError(r.err, r.self))
                 ELSE UNCHANGED last
        /\ UNCHANGED <<items, source, data>>

\* data_loader.get_record_by_id(id) and the rest of the handler, on the frame
\* self.data refers to now.
ThreadLooksUp ==
    \E t \in Threads, native \in BOOLEAN :
        /\ threads.pc[t] = "lookup"
        /\ \E r \in {get_record(Self, source, threads.id[t], native)} :
              Respond(t, r)
        /\ threads' = [threads EXCEPT
                          !.pc[t] = "done",
                          !.saw[t] = IF data = PreprocessedFrame(source)
                                     THEN "preprocessed" ELSE "partial"]
        /\ UNCHANGED <<items, source, data, player_data, team_data, stage>>

ThreadedInit ==
    /\ \/ source \in IdentityFiles
       \/ source = MissingFile
    /\ data = NoData
    /\ player_data = NoSubset
    /\ team_data = NoSubset
    /\ stage = "none"
    /\ last = NoCall
    /\ threads = NoThreads
    /\ items = InitialItems

ThreadedNext ==
    \/ ThreadBegins
    \/ ThreadEntersPreprocess
    \/ ThreadLoads
    \/ ThreadCallsReduce
    \/ ThreadFillsMissing
    \/ ThreadConvertsTypes
    \/ ThreadAddsDerived
    \/ ThreadAssigns
    \/ ThreadSplits
    \/ ThreadLooksUp

ThreadedSpec == ThreadedInit /\ [][ThreadedNext]_vars

(***************************************************************************)
(* The item service (heritage/exemplo-crud.py): a Flask application over   *)
(* the module-level list items.  A request body is the parsed JSON object, *)
(* a function from its keys; a handler that reads a key the body lacks     *)
(* raises KeyError, which Flask answers with 500.                          *)
(***************************************************************************)
\* Largest length of the list in the model.
MaxItems == 3

ItemIds == 1..(MaxItems + 1)
Bodies ==
    {[nome |-> "novo", preco |-> 30], [nome |-> "outro", preco |-> 30],
     [nome |-> "novo"], [preco |-> 30]}

NoItem == [id |-> 0, nome |-> "", preco |-> 0]

\* next((item for item in items if item["id"] == item_id), None), as the
\* position of the item in the list; 0 stands for None.
first_with_id(its, item_id) ==
    IF \E i \in DOMAIN its : its[i].id = item_id
    THEN CHOOSE i \in DOMAIN its :
            /\ its[i].id = item_id
            /\ \A j \in DOMAIN its : its[j].id = item_id => i <= j
    ELSE 0

\* The answer of a handler: the status code, the item of the body (NoItem
\* when the body is no item) and the list after the request.
Answer(code, item, its) == [code |-> code, item |-> item, items |-> its]

get_item(its, item_id) ==
    IF first_with_id(its, item_id) # 0
    THEN Answer(200, its[first_with_id(its, item_id)], its)
    ELSE Answer(404, NoItem, its)

create_item(its, body) ==
    IF {"nome", "preco"} \subseteq DOMAIN body
    THEN Answer(201, Item(Len(its) + 1, body.nome, body.preco),
                Append(its, Item(Len(its) + 1, body.nome, body.preco)))
    ELSE Answer(500, NoItem, its)

update_item(its, item_id, body) ==
    IF first_with_id(its, item_id) = 0 THEN Answer(404, NoItem, its)
    ELSE IF "nome" \notin DOMAIN body THEN Answer(500, NoItem, its)
    ELSE IF "preco" \notin DOMAIN body
    THEN Answer(500, NoItem,
                [its EXCEPT ![first_with_id(its, item_id)].nome = body.nome])
    ELSE Answer(200, Item(item_id, body.nome, body.preco),
                [its EXCEPT ![first_with_id(its, item_id)] =
                               Item(item_id, body.nome, body.preco)])

delete_item(its, item_id) ==
    Answer(200, NoItem, SelectSeq(its, LAMBDA item : item.id # item_id))

\* The request, its item id (0 when the route has none) and the answer.
Served(op, item_id, r) ==
    /\ items' = r.items
    /\ last' = Call(op, item_id, r.code = 500, "", r.item # NoItem, r.item,
                    r.code, "", "")
    /\ UNCHANGED <<source, data, player_data, team_data, stage, threads>>

GetItems == Served("get_items", 0, Answer(200, NoItem, items))

GetItem == \E item_id \in ItemIds : Served("get_item", item_id, get_item(items, item_id))

CreateItem ==
    /\ Len(items) < MaxItems
    /\ \E body \in Bodies : Served("create_item", 0, create_item(items, body))

UpdateItem ==
    \E item_id \in ItemIds, body \in Bodies :
        Served("update_item", item_id, update_item(items, item_id, body))

DeleteItem ==
    \E item_id \in ItemIds : Served("delete_item", item_id, delete_item(items, item_id))

ItemInit ==
    /\ source = MissingFile
    /\ data = NoData
    /\ player_data = NoSubset
    /\ team_data = NoSubset
    /\ stage = "none"
    /\ last = NoCall
    /\ threads = NoThreads
    /\ items = InitialItems

ItemNext ==
    \/ GetItems
    \/ GetItem
    \/ CreateItem
    \/ UpdateItem
    \/ DeleteItem

ItemSpec == ItemInit /\ [][ItemNext]_vars

(***************************************************************************)
(* Properties.                                                             *)
(***************************************************************************)
\* self.data is the frame the cleaning pipeline returned.
Preprocessed == stage \in {"done", "split_failed"}

\* The records of the source file, by index label.
SourceMissing(i, c) == c \in source.cols /\ source.rows[i][c].k = "nan"

IsZero(x) == IsNumber(x) /\ x.n = 0

\* C1: after preprocess_data has completed, no numeric (int64/float64) and no
\* categorical (object) column of self.data holds a missing value: an entry
\* missing in the source is 0 in a numeric column and "unknown" in a
\* categorical one.
C1_NoMissingAfterPreprocess ==
    stage = "done" =>
        \A c \in Columns(data) : \A i \in DOMAIN data.rows :
            /\ data.dtype[c] \in NumericDtypes \cup {"object"} => data.rows[i][c].k # "nan"
            /\ data.dtype[c] \in NumericDtypes /\ SourceMissing(i, c)
                  => IsZero(data.rows[i][c])
            /\ data.dtype[c] = "object" /\ SourceMissing(i, c)
                  => data.rows[i][c] = Str("unknown")

\* A completed run over a source with a missing numeric entry and a missing
\* categorical entry.
C1_Witness ==
    /\ stage = "done"
    /\ \E i \in DOMAIN data.rows :
          /\ SourceMissing(i, "deaths") /\ data.dtype["deaths"] = "float64"
          /\ SourceMissing(i, "teamname") /\ data.dtype["teamname"] = "object"

SourceHas(i, c) == c \in source.cols /\ source.rows[i][c].k # "nan"

\* C2 (as claimed): after preprocess_data the player subset is exactly the
\* records with a player identity in the source, the team subset exactly the
\* records with no player identity and a team identity.
C2_SubsetsFollowSource ==
    stage = "done" =>
        LET IsPlayer(i) == SourceHas(i, "playername")
            IsTeam(i) == ~SourceHas(i, "playername") /\ SourceHas(i, "teamname")
        IN  /\ player_data = Subset(SelectSeq(Indices(data), IsPlayer))
            /\ team_data = Subset(SelectSeq(Indices(data), IsTeam))

Max(a, b) == IF a > b THEN a ELSE b

\* The integer a count column holds at a record (counts are whole numbers).
Count(i, c) == data.rows[i][c].n

\* C3: in the preprocessed dataset, when kills, deaths and assists exist,
\* kda * max(1, deaths) = kills + assists at every record; the records A, B, C
\* of the scenario get 8, 1 and 15.
C3_KdaFormula ==
    /\ Preprocessed /\ {"kills", "deaths", "assists"} \subseteq Columns(data) =>
        /\ "kda" \in Columns(data)
        /\ \A i \in DOMAIN data.rows :
              LET kda == data.rows[i]["kda"]
              IN  /\ kda.k = "npfloat"
                  /\ kda.d > 0
                  /\ kda.n * Max(1, Count(i, "deaths"))
                        = (Count(i, "kills") + Count(i, "assists")) * kda.d
    /\ Preprocessed /\ source = ScenarioFile =>
        /\ data.rows[1]["kda"] = Cell("npfloat", 8, 1, "")
        /\ data.rows[2]["kda"] = Cell("npfloat", 1, 1, "")
        /\ data.rows[3]["kda"] = Cell("npfloat", 15, 1, "")

\* The scenario preprocessed: record C, with no deaths, has ratio 15.
C3_Witness ==
    /\ stage = "done"
    /\ source = ScenarioFile
    /\ Count(3, "deaths") = 0
    /\ data.rows[3]["kda"].n = 15

\* C4: in the preprocessed dataset, when kills, assists and teamkills exist,
\* kill_participation * teamkills = kills + assists at a record with
\* teamkills > 0, and kill_participation = 0 at every other record, a record
\* whose teamkills was missing in the source among them.
C4_KillParticipationFormula ==
    Preprocessed /\ {"kills", "assists", "teamkills"} \subseteq Columns(data) =>
        /\ "kill_participation" \in Columns(data)
        /\ \A i \in DOMAIN data.rows :
              LET kp == data.rows[i]["kill_participation"]
              IN  /\ kp.k \in {"npfloat", "npint"}
                  /\ kp.d > 0
                  /\ Count(i, "teamkills") > 0 =>
                        kp.n * Count(i, "teamkills")
                            = (Count(i, "kills") + Count(i, "assists")) * kp.d
                  /\ Count(i, "teamkills") <= 0 => kp.n = 0
                  /\ SourceMissing(i, "teamkills") => kp.n = 0

\* The scenario preprocessed: A has 8 of 10 team kills, C had no teamkills entry.
C4_Witness ==
    /\ stage = "done"
    /\ source = ScenarioFile
    /\ data.rows[1]["kill_participation"] = Cell("npfloat", 4, 5, "")
    /\ SourceMissing(3, "teamkills")
    /\ data.rows[3]["kill_participation"].n = 0

\* C5: the preprocessed dataset has the kda column iff the source header has
\* kills, deaths and assists, and the kill_participation column iff it has
\* kills, assists and teamkills.
C5_DerivedIffSources ==
    Preprocessed =>
        /\ "kda" \in Columns(data) <=> {"kills", "deaths", "assists"} \subseteq source.cols
        /\ "kill_participation" \in Columns(data)
              <=> {"kills", "assists", "teamkills"} \subseteq source.cols

\* A source without the deaths column: no kda column, kill_participation is there.
C5_Witness ==
    /\ stage = "done"
    /\ "deaths" \notin source.cols
    /\ "kda" \notin Columns(data)
    /\ "kill_participation" \in Columns(data)

\* C6 (as claimed): preprocess_data does not raise on a source with well-formed
\* records whose header lacks any of the expected columns.
C6_MissingColumnsNeverFail ==
    last.op = "preprocess_data" /\ source \in SchemaFiles /\ source.cols # {}
        => ~last.raised

ReadOps == {"get_record_by_id", "get_record"}

\* C7 (as claimed): once the conversion of the date column has failed, no read
\* operation answers from the dataset the failed run left behind: it raises.
C7_NoAnswerAfterConversionFailure ==
    stage = "convert_failed" /\ last.op \in ReadOps => last.raised

\* The index labels of the records whose key equals record_id.
Matches(record_id) == {i \in DOMAIN data.rows : KeyEquals(data.rows[i], record_id)}

FirstMatch(record_id) ==
    CHOOSE i \in Matches(record_id) : \A j \in Matches(record_id) : i <= j

Unboxed(kind) ==
    CASE kind \in {"npint", "pyint"} -> "int"
      [] kind \in {"npfloat", "pyfloat"} -> "float"
      [] kind \in {"npbool", "pybool"} -> "bool"
      [] OTHER -> kind

\* The same value, boxed as a numpy scalar or not.
SameValue(x, y) ==
    /\ Unboxed(x.k) = Unboxed(y.k)
    /\ x.n = y.n /\ x.d = y.d /\ x.s = y.s

\* C8: get_record_by_id, when it returns, gives None if no record has the key
\* and otherwise the field mapping of the lowest-index record that has it,
\* however many have it.
C8_FirstMatchOrNone ==
    last.op = "get_record_by_id" /\ ~last.raised =>
        IF Matches(last.arg) = {}
        THEN ~last.found
        ELSE /\ last.found
             /\ DOMAIN last.rec = Columns(data)
             /\ \A c \in Columns(data) :
                   SameValue(last.rec[c], data.rows[FirstMatch(last.arg)][c])

\* A lookup of a key that two different records carry.
C8_Witness ==
    /\ last.op = "get_record_by_id"
    /\ last.found
    /\ \E i, j \in Matches(last.arg) : i < j /\ data.rows[i] # data.rows[j]

\* C9: a record request ends in one of three responses: 500 with status error
\* and a message exactly when the request raised (the load failed, the
\* dataset has no key column), else 200 with status success when a record has
\* the key, else 404 with status error and a message.
C9_ThreeOutcomes ==
    last.op = "get_record" =>
        /\ last.code \in {200, 404, 500}
        /\ last.code = 500 <=> last.raised
        /\ data.isNone \/ "gameid" \notin Columns(data) => last.code = 500
        /\ ~last.raised => (last.code = 200 <=> Matches(last.arg) # {})
        /\ last.code = 200 => last.status = "success" /\ DOMAIN last.rec # {}
        /\ last.code \in {404, 500} =>
              last.status = "error" /\ last.message # "" /\ last.rec = NoRecord

\* A request over a dataset that has no key column.
C9_Witness ==
    /\ last.op = "get_record"
    /\ last.code = 500
    /\ ~data.isNone
    /\ "gameid" \notin Columns(data)

JsonKinds == {"none", "str", "pyint", "pyfloat", "pybool"}

\* C10: a success response carries every field of the matched record, each as
\* a JSON-safe value: null for NaN/NaT, the canonical string of a timestamp,
\* the plain number of a numpy number, a string as it is.
C10_JsonSafe ==
    last.op = "get_record" /\ last.code = 200 =>
        /\ DOMAIN last.rec = Columns(data)
        /\ \A c \in Columns(data) :
              LET stored == data.rows[FirstMatch(last.arg)][c]
                  value == last.rec[c]
              IN  /\ value.k \in JsonKinds
                  /\ stored.k \in {"nan", "nat"} <=> value = None
                  /\ stored.k = "ts" => value = Str(stored.s)
                  /\ stored.k = "str" => value = stored
                  /\ IsNumber(stored) =>
                        /\ value.k \in {"pyint", "pyfloat", "pybool"}
                        /\ SameValue(value, stored)

\* A success response with a null (a NaT date) and a plain float.
C10_Witness ==
    /\ last.op = "get_record"
    /\ last.code = 200
    /\ data.rows[FirstMatch(last.arg)]["date"] = NaT
    /\ last.rec["date"] = None
    /\ last.rec["kda"].k = "pyfloat"

\* C11: filter_data returns exactly the records that satisfy every constraint
\* whose column is a column of the dataset: a single value by equality, a list
\* of values by membership; a constraint on an unknown column is ignored, so
\* a mapping of unknown columns only returns every record.
C11_FilterConjunction ==
    last.op = "filter_data" /\ ~last.raised =>
        LET known == DOMAIN last.filters \cap Columns(data)
            Accepts(i, c) ==
                IF last.filters[c].list
                THEN \E j \in DOMAIN last.filters[c].values :
                        data.rows[i][c] = last.filters[c].values[j]
                ELSE data.rows[i][c] = last.filters[c].values[1]
            Satisfies(i) == \A c \in known : Accepts(i, c)
        IN  /\ last.index = SelectSeq(Indices(data), Satisfies)
            /\ known = {} => last.index = Indices(data)

\* A filter on a list of keys, a player name and an unknown column, over two
\* records with listed keys of which only the first has the player name.
C11_Witness ==
    /\ last.op = "filter_data"
    /\ ~last.raised
    /\ DOMAIN last.filters = {"gameid", "playername", "champion"}
    /\ last.filters["gameid"].list
    /\ Len(data.rows) = 2
    /\ data.rows[1]["gameid"] = Str("g2")
    /\ data.rows[2]["gameid"] = Str("g1")
    /\ data.rows[2]["playername"] = Str("unknown")
    /\ last.index = <<1>>

\* C15: for every group calculate_win_rates returns, games_played is the
\* number of rows of the group, wins is the sum of the outcome column over the
\* group, and win_rate equals wins / games_played and lies in [0, 1].
C15_WinRateOfEveryGroup ==
    last.op = "calculate_win_rates" /\ ~last.raised =>
        \A key \in DOMAIN last.out :
            LET rows == GroupIndex(data, last.args[1], key)
                group == last.out[key]
            IN  /\ group.games_played = NpInt(Len(rows))
                /\ group.wins.n * 1 =
                      Sum(dropna(Entries(data, rows, "result"))).n * group.wins.d
                /\ IsNumber(group.win_rate)
                /\ group.win_rate.n * Len(rows) = group.wins.n * group.win_rate.d
                /\ 0 <= group.win_rate.n
                /\ group.win_rate.n <= group.win_rate.d

\* C15 as the code has it: games_played is the number of rows of the group
\* whose outcome is not missing (every row of the group once the dataset is
\* preprocessed), wins is the sum of those outcomes, win_rate is
\* wins / games_played when games_played > 0 and NaN when it is 0, and
\* win_rate lies in [0, 1] when every outcome of the group is 0 or 1.
C15_WinRateOfRecordedGames ==
    last.op = "calculate_win_rates" /\ ~last.raised =>
        \A key \in DOMAIN last.out :
            LET rows == GroupIndex(data, last.args[1], key)
                Recorded(i) == ~IsNa(data.rows[i]["result"])
                recorded == SelectSeq(rows, Recorded)
                group == last.out[key]
            IN  /\ group.games_played = NpInt(Len(recorded))
                /\ stage = "done" => Len(recorded) = Len(rows)
                /\ group.wins.n * 1 =
                      Sum(Entries(data, recorded, "result")).n * group.wins.d
                /\ IF recorded = <<>> THEN group.win_rate = NaN
                   ELSE /\ IsNumber(group.win_rate)
                        /\ group.win_rate.n * Len(recorded)
                              = group.wins.n * group.win_rate.d
                /\ (recorded # <<>> /\ \A j \in DOMAIN recorded :
                        data.rows[recorded[j]]["result"].n \in {0, 1})
                     => /\ 0 <= group.win_rate.n
                        /\ group.win_rate.n <= group.win_rate.d

\* The win rates of a raw dataset with a group of two records, one a win and
\* one without outcome.
C15_Witness ==
    /\ last.op = "calculate_win_rates"
    /\ ~last.raised
    /\ stage = "raw"
    /\ DOMAIN last.out = {Str("t1")}
    /\ Len(GroupIndex(data, "teamname", Str("t1"))) = 2
    /\ last.out[Str("t1")].games_played = NpInt(1)
    /\ last.out[Str("t1")].win_rate = NpFloat(1, 1)

\* A column the dataset does not have.
Absent(c) == data.isNone \/ c \notin Columns(data)

\* A column of the dataset that is not numeric.
NonNumeric(c) == ~Absent(c) /\ ~is_numeric_dtype(data.dtype[c])

\* A date column of the dataset with an entry pd.to_datetime rejects.
Unparsable(c) ==
    /\ ~Absent(c)
    /\ data.dtype[c] # "datetime64"
    /\ \E i \in DOMAIN data.rows : ~DateParses(data.rows[i][c], data.dtype[c])

\* The call of last asked for a column that is absent or of the wrong type
\* for the operation.
BadColumnRequest ==
    CASE last.op \in {"get_basic_stats", "get_correlation_matrix"} ->
            /\ ~last.args.isNone
            /\ last.args.cols # {}
            /\ \A c \in last.args.cols : Absent(c) \/ NonNumeric(c)
      [] last.op = "get_categorical_distribution" ->
            Absent(last.args[1]) \/ ~is_object_dtype(data.dtype[last.args[1]])
      [] last.op = "get_time_series_analysis" ->
            \/ Absent(last.args[1]) \/ Absent(last.args[2])
            \/ Unparsable(last.args[1]) \/ NonNumeric(last.args[2])
      [] last.op = "get_group_comparison" ->
            Absent(last.args[1]) \/ Absent(last.args[2]) \/ NonNumeric(last.args[2])
      [] last.op = "get_top_n_records" -> Absent(last.args[1])
      [] last.op = "calculate_win_rates" ->
            Absent(last.args[1]) \/ Absent("result") \/ NonNumeric("result")
      [] OTHER -> FALSE

\* C16: an analyzer operation asked for a column that is absent or of the
\* wrong type returns an empty result and does not raise: a time series over
\* an unparsable date column or a non-numeric value column, top-N on an
\* unknown column, a group comparison on a non-numeric value column, win
\* rates over a non-numeric outcome column.
C16_EmptyOnBadColumn ==
    BadColumnRequest => ~last.raised /\ last.empty

\* x and v are the same number.
EqualsNumber(x, v) == IsNumber(x) /\ x.n * v.d = v.n * x.d

\* C17: get_basic_stats reports, for a column that holds the same value v in
\* all n > 0 rows, mean = v, median = v, std = 0, min = v, max = v and
\* count = n; for every column, count is the number of its non-missing
\* entries.
C17_BasicStatsOfConstantColumn ==
    last.op = "get_basic_stats" /\ ~last.raised =>
        \A col \in DOMAIN last.out :
            LET stats == last.out[col]
                n == Len(data.rows)
                v == data.rows[1][col]
            IN  /\ stats.count =
                      NpInt(Cardinality({i \in DOMAIN data.rows : ~IsNa(data.rows[i][col])}))
                /\ (n > 0 /\ IsNumber(v) /\ \A i \in DOMAIN data.rows : data.rows[i][col] = v)
                     => /\ EqualsNumber(stats.mean, v)
                        /\ EqualsNumber(stats.median, v)
                        /\ EqualsNumber(stats.std, NpInt(0))
                        /\ EqualsNumber(stats.min, v)
                        /\ EqualsNumber(stats.max, v)
                        /\ stats.count = NpInt(n)

\* The statistics of a column of two equal counts above 1.
C17_Witness ==
    /\ last.op = "get_basic_stats"
    /\ "kills" \in DOMAIN last.out
    /\ Len(data.rows) = 2
    /\ data.rows[1]["kills"] = data.rows[2]["kills"]
    /\ EqualsNumber(data.rows[1]["kills"], NpInt(MaxVal))
    /\ last.out["kills"].count = NpInt(2)
    /\ EqualsNumber(last.out["kills"].mean, NpInt(MaxVal))

\* C18: get_basic_stats never raises and returns an entry for exactly the
\* requested columns that exist and are numeric (by default, for the numeric
\* columns of the dataset); a non-numeric or unknown column of the request
\* has no entry, and without a numeric column present or selected the result
\* is empty.
C18_BasicStatsSelection ==
    last.op = "get_basic_stats" =>
        /\ ~last.raised
        /\ DOMAIN last.out =
              IF data.isNone THEN {}
              ELSE IF last.args.isNone
              THEN {c \in Columns(data) : data.dtype[c] \in {"int64", "float64"}}
              ELSE {c \in last.args.cols \cap Columns(data) :
                       data.dtype[c] \in {"int64", "float64", "bool"}}
        /\ last.empty <=> DOMAIN last.out = {}

\* A request for a numeric column, a categorical column and an unknown column.
C18_Witness ==
    /\ last.op = "get_basic_stats"
    /\ ~last.args.isNone
    /\ last.args.cols = {"kills", "teamname", "champion"}
    /\ "teamname" \in Columns(data)
    /\ DOMAIN last.out = {"kills"}

\* The axis columns of the call of last: the column of a histogram, the x
\* and y columns of a scatter plot, the value column of a box plot.
AxisColumns ==
    CASE last.op = "create_histogram" -> {last.args[1]}
      [] last.op = "create_scatter_plot" -> {last.args[1], last.args[2]}
      [] last.op = "create_box_plot" -> {last.args[1]}
      [] OTHER -> {}

IsPlaceholder(fig) == fig.placeholder /\ fig.message # "" /\ fig.kind = "text"

\* C19: create_histogram, create_scatter_plot and create_box_plot return a
\* placeholder with a message and do not raise when the dataset is unset or
\* an axis column is absent or not numeric; a histogram of a categorical
\* column is a placeholder.
C19_PlaceholderOnBadAxis ==
    last.op \in {"create_histogram", "create_scatter_plot", "create_box_plot"}
       /\ (data.isNone \/ \E c \in AxisColumns : Absent(c) \/ NonNumeric(c))
    => ~last.raised /\ IsPlaceholder(last.fig)

\* A histogram asked of the categorical column teamname of a preprocessed
\* dataset.
C19_Witness ==
    /\ last.op = "create_histogram"
    /\ last.args = <<"teamname">>
    /\ stage = "done"
    /\ data.dtype["teamname"] = "object"
    /\ last.fig.placeholder
    /\ last.fig.message = "A coluna teamname nao e numerica"

\* The grouping column of the call of last, "" when the call has none.
GroupingColumn ==
    CASE last.op = "create_scatter_plot" -> last.args[3]
      [] last.op = "create_box_plot" -> last.args[2]
      [] OTHER -> ""

\* C20: a builder gives a placeholder instead of the chart when a requested
\* column has not the type the chart requires: a bar or pie chart of a column
\* that is not categorical, a scatter or box plot whose grouping column is
\* absent or not categorical.
C20_PlaceholderOnWrongType ==
    /\ last.op \in {"create_bar_chart", "create_pie_chart"}
          /\ (Absent(last.args[1]) \/ ~is_object_dtype(data.dtype[last.args[1]]))
       => ~last.raised /\ IsPlaceholder(last.fig)
    /\ last.op \in {"create_scatter_plot", "create_box_plot"}
          /\ GroupingColumn # ""
          /\ (Absent(GroupingColumn) \/ ~is_object_dtype(data.dtype[GroupingColumn]))
       => ~last.raised /\ IsPlaceholder(last.fig)

\* The operations downstream of the loader.
DownstreamOps ==
    {"get_record_by_id", "get_record", "filter_data", "get_unique_values",
     "apply_function_to_column", "get_basic_stats", "get_correlation_matrix",
     "get_categorical_distribution", "get_time_series_analysis",
     "get_group_comparison", "get_top_n_records", "calculate_win_rates",
     "get_performance_metrics", "create_histogram", "create_scatter_plot",
     "create_bar_chart", "create_heatmap", "create_time_series", "create_box_plot",
     "create_pie_chart", "create_multi_plot_dashboard"}

\* C12: a downstream operation (record lookup and its JSON conversion,
\* filter, unique values, column transform, an analyzer method, a builder of
\* the visualizer) on a preprocessed dataset leaves the records, columns and
\* values of the dataset and its two subsets as they were.
C12_DownstreamLeavesDataset ==
    [][Preprocessed /\ last'.op \in DownstreamOps =>
          /\ data' = data
          /\ player_data' = player_data
          /\ team_data' = team_data]_vars

\* A filter that returned one of the two records of a preprocessed dataset,
\* which still has both.
C12_Witness ==
    /\ last.op = "filter_data"
    /\ ~last.raised
    /\ Preprocessed
    /\ Len(data.rows) = 2
    /\ Len(last.index) = 1

\* The record request and the read operations of the loader.
RequestOps ==
    {"get_record_by_id", "get_record", "filter_data", "get_unique_values",
     "apply_function_to_column"}

\* The call failed in pd.read_csv: it read the source and got no frame.
ReadFailed(call) ==
    /\ call.raised
    /\ call.err \in {"[Errno 2] No such file or directory",
                     "No columns to parse from file"}

\* C13: the load-and-preprocess pipeline runs at most once: a request that
\* follows another request finds the dataset built, does not read the source
\* again and runs no stage on the dataset.
C13_PipelineRunsOnce ==
    [][last.op \in RequestOps /\ last'.op \in RequestOps =>
          /\ ~data.isNone
          /\ ~ReadFailed(last')
          /\ data' = data
          /\ stage' = stage]_vars

\* C13 as the code has it: a request that finds a dataset held reuses it
\* without reading the source or running a stage, so at most one request
\* builds the dataset; a request that finds none reads the source, and when
\* the read fails no dataset is kept and the next request reads it again.
C13_PipelineRunsOncePerReadableSource ==
    [][last'.op \in RequestOps =>
          /\ ~data.isNone =>
                /\ ~ReadFailed(last')
                /\ data' = data
                /\ stage' = stage
          /\ data.isNone =>
                \/ ReadFailed(last') /\ data'.isNone /\ stage' = "none"
                \/ ~data'.isNone /\ stage' \notin {"none", "raw"}]_vars

\* A request answered from the dataset an earlier request built: its split
\* stage failed then, and the request of last did not run it again.
C13_Witness ==
    /\ stage = "split_failed"
    /\ last.op = "get_unique_values"
    /\ ~last.raised
    /\ last.values # <<>>

\* C14: with concurrent request threads, also on a fresh process, every
\* lookup reads a fully preprocessed dataset (never a raw or partly cleaned
\* one), and no two threads run the pipeline over the same frame at once.
C14_LookupsReadPreprocessed ==
    /\ \A t \in Threads : threads.saw[t] # "partial"
    /\ \A t, u \in Threads :
          t # u /\ InPipeline(t) /\ InPipeline(u) => threads.df[t] # threads.df[u]

\* The records of the dataset that hold value v in the column.
Holding(column, v) == {i \in DOMAIN data.rows : data.rows[i][column] = v}

\* The records with a value in the column that is none of the given groups.
Outside(column, groups) ==
    {i \in DOMAIN data.rows :
        ~IsNa(data.rows[i][column]) /\ data.rows[i][column] \notin groups}

\* The groups are n of the most frequent values of the column, each with the
\* number of its records.
MostFrequent(groups, column, n, counts) ==
    /\ groups \subseteq GroupKeys(data, column)
    /\ Cardinality(groups) = n
    /\ \A a \in groups :
          /\ counts[a] = Cardinality(Holding(column, a))
          /\ \A b \in GroupKeys(data, column) \ groups :
                Cardinality(Holding(column, a)) >= Cardinality(Holding(column, b))

\* The chart of last is of a categorical column with more than top_n
\* distinct values, a missing entry counted as one.
CappedChart ==
    /\ last.op \in {"create_bar_chart", "create_pie_chart"}
    /\ ~data.isNone
    /\ last.args[1] \in Columns(data)
    /\ is_object_dtype(data.dtype[last.args[1]])
    /\ Cardinality(ColCells(data.rows, last.args[1])) > last.args[2]

GroupValues == GroupKeys(data, GroupingColumn)

\* The chart of last is a scatter or box plot drawn with a grouping column.
GroupedChart ==
    /\ last.op \in {"create_scatter_plot", "create_box_plot"}
    /\ ~last.raised /\ ~last.fig.placeholder
    /\ GroupingColumn # "" /\ ~Absent(GroupingColumn)

\* C22: a scatter or box plot with a grouping column of more than 10 distinct
\* values plots the records of the 10 most frequent values only and carries
\* the truncation note; with 10 or fewer it plots every record without note.
C22_TopTenGroups ==
    GroupedChart =>
        IF Cardinality(GroupValues) > TopCategories
        THEN /\ last.fig.annotation = TopCategoriesNote
             /\ \E top \in SUBSET GroupValues :
                   /\ Cardinality(top) = TopCategories
                   /\ \A a \in top : \A b \in GroupValues \ top :
                         Cardinality(Holding(GroupingColumn, a))
                             >= Cardinality(Holding(GroupingColumn, b))
                   /\ {last.fig.plotted[j] : j \in DOMAIN last.fig.plotted} =
                         {i \in DOMAIN data.rows :
                             data.rows[i][GroupingColumn] \in top}
        ELSE /\ last.fig.annotation = ""
             /\ last.fig.plotted = Indices(data)

\* The kind of the chart each tag stands for.
KindOf ==
    [histogram |-> "histogram", scatter |-> "scatter", bar |-> "bar",
     heatmap |-> "heatmap", box |-> "box", pie |-> "pie", dashboard |-> "dashboard"]

\* C23: every chart request to the dispatcher yields a chart or a placeholder
\* and does not raise: the tag of a chart variant gives that variant's chart
\* or a placeholder, an unrecognised tag gives a placeholder.
C23_DispatchYieldsArtifact ==
    last.op = "create_visualization" =>
        /\ ~last.raised
        /\ last.found
        /\ IF last.arg \in DOMAIN KindOf
           THEN IsPlaceholder(last.fig) \/ last.fig.kind = KindOf[last.arg]
           ELSE IsPlaceholder(last.fig)

\* C24: whatever DataLoader calls came before, load_data on its own included,
\* a read operation (lookup, filter, unique values, column transform) that
\* answers does so from a dataset that went through missing-value handling,
\* type conversion and derivation.
C24_ReadsAfterPipeline ==
    last.op \in RequestOps /\ ~last.raised => Preprocessed

\* C25: each pipeline stage applied to its own output returns that output,
\* and a second run of preprocess_data leaves the dataset and both subsets as
\* the first run produced them.
C25_StagesIdempotent ==
    [][/\ last'.op \in StageOps /\ last'.args = <<last'.op>> /\ ~last'.raised
          => data' = data
       /\ last.op = "preprocess_data" /\ ~last.raised
             /\ last'.op = "preprocess_data"
          => /\ ~last'.raised
             /\ data' = data
             /\ player_data' = player_data
             /\ team_data' = team_data]_vars

\* The missing-value stage applied to its own output, in which it had filled
\* a missing flag with 0.
C25_Witness ==
    /\ last.op = "_handle_missing_values"
    /\ last.args = <<"_handle_missing_values">>
    /\ ~last.raised
    /\ "playoffs" \in Columns(data)
    /\ \E i \in DOMAIN data.rows :
          /\ source.rows[i]["playoffs"] = NaN
          /\ data.rows[i]["playoffs"] = NpFloat(0, 1)

\* The designated date column and flag columns of the dataset.
DateAndFlagColumns == ({"date"} \cup bool_cols) \cap Columns(data)

\* C26: the missing-value stage leaves every entry of the date column and of
\* the flag columns as it was, missing entries included.
C26_FillLeavesDatesAndFlags ==
    [][last'.op = "_handle_missing_values" /\ ~data.isNone =>
          \A c \in DateAndFlagColumns : Column(data', c) = Column(data, c)]_vars

\* C27: a pipeline stage leaves the dataset it was given unchanged, and the
\* raw dataset load_data returned still holds its original values and
\* columns after preprocess_data has run.
C27_StagesLeaveTheirInput ==
    [][/\ last'.op \in StageOps /\ ~data.isNone => last'.given = data
       /\ last.op = "load_data" /\ ~last.raised /\ last'.op = "preprocess_data"
          => last'.given = data]_vars

\* C28: the pie chart of a categorical column has the remainder group only
\* when a counted record lies outside the top_n groups: the group, when
\* present, counts at least one record, and a column with at most top_n
\* distinct non-missing values has none, missing entries or not.
C28_RemainderOnlyWhenNeeded ==
    /\ last.op = "create_pie_chart"
    /\ ~last.raised /\ ~last.fig.placeholder
    /\ is_object_dtype(data.dtype[last.args[1]])
    => /\ Others \in last.fig.shown => last.fig.counts[Others] >= 1
       /\ nunique(data, last.args[1]) <= last.args[2] => Others \notin last.fig.shown

\* C29: get_basic_stats without a column list covers the same columns as
\* get_basic_stats with the list of every column of the dataset.
C29_DefaultIsEveryNumericColumn ==
    [][/\ last.op = "get_basic_stats" /\ last.args = AllNumeric
       /\ last'.op = "get_basic_stats" /\ last'.args = Requested(Columns(data))
       /\ ~data.isNone
       => DOMAIN last'.out = DOMAIN last.out]_vars

\* The item of the list created last under the given id.
LatestWithId(item_id) ==
    items[CHOOSE i \in DOMAIN items :
             /\ items[i].id = item_id
             /\ \A j \in DOMAIN items : items[j].id = item_id => j <= i]

\* C30: in the item service, after any sequence of create, update and delete
\* requests no two items of the list have the same id, and a GET by id
\* returns the item created last under that id.
C30_ItemIdsUnique ==
    /\ \A i, j \in DOMAIN items : items[i].id = items[j].id => i = j
    /\ last.op = "get_item" /\ last.found => last.rec = LatestWithId(last.arg)

====
